---- MODULE Spec2Model ----
(***************************************************************************)
(* Model of kruulik/magnetic: the rectangle boundary deformation engine    *)
(* (src/src/components/MagneticButton.tsx, rectanglePhysics in             *)
(* src/unnamed/part_008), the MagneticLavaRectangle frame controller and   *)
(* the useMagnetic hook (src/src/hooks/useMagnetic.ts).                    *)
(*                                                                         *)
(* Numbers.  The code computes in IEEE doubles.  The model computes in     *)
(* fixed point: every length (coordinate, distance, strength) is an        *)
(* integer count of 1/Sub pixel, every ratio (force, unit vector, factor,  *)
(* sidePosition) an integer count of 1/Scale.  Products and quotients      *)
(* truncate toward zero.                                                   *)
(***************************************************************************)
EXTENDS Integers, Sequences, FiniteSets, TLC

VARIABLES
    sCfg,       \* solver: the configuration the path generator closes over
    sIn,        \* solver: the parameters of the last generateLavaPath call
    sPts,       \* solver: the transformed, sorted points of that call
    sPath,      \* solver: the path string of that call, as a token sequence
    sPrev,      \* solver: the points of the call before that one
    bIn,        \* sphere: the props of the instance and the pointer position of an event
    bOut,       \* sphere: what the effect callback decided and drew for that event
    fIn,        \* physics: a function of the force model or the attractor transform, and its arguments
    fOut,       \* physics: what that function returned
    props,      \* rectangle: the props of the instance, and what its host supports
    mounted,    \* rectangle: the component is mounted, its listeners registered
    scrollY,    \* rectangle: how far the page is scrolled, in scroll steps
    isInside,   \* rectangle: the isInside state (useState)
    currentPath,\* rectangle: the currentPath state (useState)
    closure,    \* rectangle: the state values the registered listeners closed over
    pathAttr,   \* rectangle: the d attribute of the path element
    tweens,     \* rectangle: the tweens gsap holds for the path element, oldest first
    notified,   \* rectangle: the values onCursorInside was called with, in order
    lastPointer,\* rectangle: the coordinates of the last mousemove event
    lastReq,    \* rectangle: the last recompute: its attractor, center, branch and target
    hGiven,     \* hook: the config object the host passes to useMagnetic
    hCfg,       \* hook: mergedConfig of the render whose effect is registered
    hMounted,   \* hook: the host component is mounted, the effect has run
    hListeners, \* hook: the event listeners on the document and on the element
    hScrollY,   \* hook: how far the page is scrolled, in scroll steps
    hLastMouse, \* hook: lastMouseX, lastMouseY of the registered effect's closure
    hPointer,   \* hook: the coordinates of the last mousemove event
    hPos,       \* hook: the x, y gsap has set on the element
    hTweens,    \* hook: the targets of the tweens gsap holds for the element
    hLastCall   \* hook: the last calculateMagneticEffect call: its caller and arguments

solverVars == <<sCfg, sIn, sPts, sPath, sPrev, bIn, bOut, fIn, fOut>>
rectVars == <<props, mounted, scrollY, isInside, currentPath, closure, pathAttr, tweens,
              notified, lastPointer, lastReq>>
hookVars == <<hGiven, hCfg, hMounted, hListeners, hScrollY, hLastMouse, hPointer, hPos, hTweens, hLastCall>>
vars == <<sCfg, sIn, sPts, sPath, sPrev, bIn, bOut, fIn, fOut, props, mounted, scrollY, isInside, currentPath, closure,
          pathAttr, tweens, notified, lastPointer, lastReq,
          hGiven, hCfg, hMounted, hListeners, hScrollY, hLastMouse, hPointer, hPos, hTweens,
          hLastCall>>

-----------------------------------------------------------------------------
(* Resolution and bounds of the model *)

Sub == 4
Scale == 1000
MaxGrid == 4
GridStep == 90
MaxPointsPerSide == 3
MaxSolverPointsPerSide == 4

Px(n) == n * Sub

MaxCompGrid == 2
CompGridStep == 180
MaxScroll == 1
ScrollStep == 30
MaxTweens == 2
MaxNotify == 3

(* The instance the model draws its inputs around: props of the component, *)
(* its place on the page and the size of the window                        *)
RectWidth == 120
RectHeight == 60
RectLeft == 120
RectTop == 150
Strength == 60
EffDistance == 400
Distance == 170
Duration == 2
ViewportWidth == 480
ViewportHeight == 360

-----------------------------------------------------------------------------
(* Fixed-point arithmetic *)

MinI(a, b) == IF a < b THEN a ELSE b
MaxI(a, b) == IF a > b THEN a ELSE b

\* a / b for b > 0, truncated toward zero
DivT(a, b) == IF a >= 0 THEN a \div b ELSE -((-a) \div b)
\* the product of a quantity and a ratio
MulS(a, r) == DivT(a * r, Scale)
\* the ratio a / b of two quantities (b > 0)
DivS(a, b) == DivT(a * Scale, b)

\* Math.pow(r, n) of a ratio r for a whole exponent n
RECURSIVE PowS(_, _)
PowS(r, n) == IF n = 0 THEN Scale ELSE MulS(PowS(r, n - 1), r)

RECURSIVE ISqrtB(_, _, _)
ISqrtB(n, lo, hi) ==
    IF lo >= hi THEN lo
    ELSE LET mid == (lo + hi + 1) \div 2
         IN  IF mid * mid <= n THEN ISqrtB(n, mid, hi) ELSE ISqrtB(n, lo, mid - 1)
\* floor of the square root (Math.sqrt)
ISqrt(n) == ISqrtB(n, 0, 46340)

-----------------------------------------------------------------------------
(* MATH_CONSTANTS, DEFAULT_PHYSICS and prop defaults *)

HALF == Scale \div 2
POWER_OF_TWO == 2
SQRT_HALF == (707 * Scale) \div 1000
NEGATIVE_SQRT_HALF == -SQRT_HALF
CORNER_BLEND_FACTOR == (3 * Scale) \div 10
STRETCH_SCALE_FACTOR == Scale \div 2
FAR_AWAY_DISTANCE == 1000
DURATION_MULTIPLIER == (3 * Scale) \div 10
SMOOTHSTEP_FACTOR_A == 3
SMOOTHSTEP_FACTOR_B == 2
DEFAULT_TRANSITION_WIDTH == 20
SORT_ORDER_TOP_CORNER == 0
SORT_ORDER_TOP == 1
SORT_ORDER_RIGHT == 2
SORT_ORDER_BOTTOM == 3
SORT_ORDER_LEFT == 4
SORT_ORDER_DEFAULT == 5
DEFAULT_MIN_DISTANCE == 25
DEFAULT_PERCEIVED_OFFSET == 20
DEFAULT_STRETCHINESS == Scale \div 2
DEFAULT_CORNER_DEFLECTION == Scale \div 5

Sides == {"top", "right", "bottom", "left"}
Modes == {"cursor", "surface-normal"}

-----------------------------------------------------------------------------
(* rectanglePhysics: vectors, force, point generation *)

calculateDistance(x1, y1, x2, y2) ==
    ISqrt((x2 - x1) * (x2 - x1) + (y2 - y1) * (y2 - y1))

normalizeVector(x, y) ==
    LET length == ISqrt(x * x + y * y)
    IN  [x |-> IF length > 0 THEN DivS(x, length) ELSE 0,
         y |-> IF length > 0 THEN DivS(y, length) ELSE 0,
         length |-> length]

\* mutant: Math.max where the code has Math.min
calculateBaseMagneticForceMax(distance, effectiveDistance) ==
    PowS(Scale - MaxI(DivS(distance, effectiveDistance), Scale), POWER_OF_TWO)

\* distance / effectiveDistance is Infinity for effectiveDistance = 0 and a
\* positive distance (the clamp to minDistance keeps the distance positive),
\* and Math.min(Infinity, 1) is 1.
calculateBaseMagneticForce(distance, effectiveDistance) ==
    LET normalizedDistance ==
            IF effectiveDistance > 0 THEN DivS(distance, effectiveDistance) ELSE Scale
    IN  PowS(Scale - MinI(normalizedDistance, Scale), POWER_OF_TWO)

calculateStretch(magneticForce, strength, config) ==
    MulS(MulS(MulS(strength, magneticForce), config.stretchiness), STRETCH_SCALE_FACTOR)

RectPoint(x, y, side, sidePosition) ==
    [x |-> x, y |-> y, baseX |-> x, baseY |-> y, side |-> side, sidePosition |-> sidePosition]

generateCornerPoints(dimensions) ==
    << RectPoint(0, 0, "top", 0),
       RectPoint(dimensions.width, 0, "top", Scale),
       RectPoint(dimensions.width, dimensions.height, "bottom", 0),
       RectPoint(0, dimensions.height, "bottom", Scale) >>

\* the point of index i (1 <= i <= pointsPerSide - 2) of a side
SidePoint(side, i, pointsPerSide, dimensions) ==
    LET tw == DivT(i * dimensions.width, pointsPerSide - 1)
        th == DivT(i * dimensions.height, pointsPerSide - 1)
        t  == DivS(i, pointsPerSide - 1)
    IN  CASE side = "top"    -> RectPoint(tw, 0, side, t)
          [] side = "right"  -> RectPoint(dimensions.width, th, side, t)
          [] side = "bottom" -> RectPoint(dimensions.width - tw, dimensions.height, side, t)
          [] side = "left"   -> RectPoint(0, dimensions.height - th, side, t)

\* mutant: the loop starts at i = 0, on the corner
generateSidePointsFromZero(side, pointsPerSide, dimensions) ==
    IF pointsPerSide < 2 THEN << >>
    ELSE [k \in 1..(pointsPerSide - 1) |-> SidePoint(side, k - 1, pointsPerSide, dimensions)]

generateSidePoints(side, pointsPerSide, dimensions) ==
    IF pointsPerSide < 3 THEN << >>
    ELSE [i \in 1..(pointsPerSide - 2) |-> SidePoint(side, i, pointsPerSide, dimensions)]

RECURSIVE SidePointsOf(_, _, _)
SidePointsOf(activeSides, pointsPerSide, dimensions) ==
    IF activeSides = << >> THEN << >>
    ELSE generateSidePoints(Head(activeSides), pointsPerSide, dimensions)
         \o SidePointsOf(Tail(activeSides), pointsPerSide, dimensions)

generateRectanglePoints(dimensions, activeSides, pointsPerSide) ==
    generateCornerPoints(dimensions) \o SidePointsOf(activeSides, pointsPerSide, dimensions)

getSortOrder(point) ==
    IF point.side = "top" /\ point.sidePosition = 0 THEN SORT_ORDER_TOP_CORNER
    ELSE IF point.side = "top" THEN SORT_ORDER_TOP
    ELSE IF point.side = "right" THEN SORT_ORDER_RIGHT
    ELSE IF point.side = "bottom" THEN SORT_ORDER_BOTTOM
    ELSE IF point.side = "left" THEN SORT_ORDER_LEFT
    ELSE SORT_ORDER_DEFAULT

\* mutant: the distance to the closest edge is not negated inside the rectangle
calculateDistanceToRectangleBoundaryUnsigned(cursorX, cursorY, rectX, rectY, rectWidth, rectHeight) ==
    LET relativeX == cursorX - rectX
        relativeY == cursorY - rectY
        inside == relativeX >= 0 /\ relativeX <= rectWidth
                  /\ relativeY >= 0 /\ relativeY <= rectHeight
        clampedX == MaxI(0, MinI(rectWidth, relativeX))
        clampedY == MaxI(0, MinI(rectHeight, relativeY))
        dx == relativeX - clampedX
        dy == relativeY - clampedY
    IN  IF inside
        THEN MinI(MinI(relativeX, rectWidth - relativeX), MinI(relativeY, rectHeight - relativeY))
        ELSE ISqrt(dx * dx + dy * dy)

calculateDistanceToRectangleBoundary(cursorX, cursorY, rectX, rectY, rectWidth, rectHeight) ==
    LET relativeX == cursorX - rectX
        relativeY == cursorY - rectY
        distanceToLeft == relativeX
        distanceToRight == rectWidth - relativeX
        distanceToTop == relativeY
        distanceToBottom == rectHeight - relativeY
        inside == relativeX >= 0 /\ relativeX <= rectWidth
                  /\ relativeY >= 0 /\ relativeY <= rectHeight
        clampedX == MaxI(0, MinI(rectWidth, relativeX))
        clampedY == MaxI(0, MinI(rectHeight, relativeY))
        dx == relativeX - clampedX
        dy == relativeY - clampedY
    IN  IF inside
        THEN -MinI(MinI(distanceToLeft, distanceToRight), MinI(distanceToTop, distanceToBottom))
        ELSE ISqrt(dx * dx + dy * dy)

calculateDistanceBasedStrength(distanceToBoundary, baseStrength) ==
    LET transitionWidth == Px(DEFAULT_TRANSITION_WIDTH)
        normalizedDistance == DivS(distanceToBoundary, transitionWidth)
        smoothFactor ==
            MulS(MulS(normalizedDistance, normalizedDistance),
                 SMOOTHSTEP_FACTOR_A * Scale - SMOOTHSTEP_FACTOR_B * normalizedDistance)
    IN  IF distanceToBoundary < 0 THEN 0
        ELSE IF distanceToBoundary < transitionWidth THEN MulS(baseStrength, smoothFactor)
        ELSE baseStrength

-----------------------------------------------------------------------------
(* MagneticButton.tsx: the displacement solver *)

calculateCornerNormal(side, sidePosition) ==
    CASE side = "top" ->
            IF sidePosition = 0 THEN [x |-> NEGATIVE_SQRT_HALF, y |-> NEGATIVE_SQRT_HALF]
            ELSE [x |-> SQRT_HALF, y |-> NEGATIVE_SQRT_HALF]
      [] side = "right" ->
            IF sidePosition = 0 THEN [x |-> SQRT_HALF, y |-> NEGATIVE_SQRT_HALF]
            ELSE [x |-> SQRT_HALF, y |-> SQRT_HALF]
      [] side = "bottom" ->
            IF sidePosition = 0 THEN [x |-> SQRT_HALF, y |-> SQRT_HALF]
            ELSE [x |-> NEGATIVE_SQRT_HALF, y |-> SQRT_HALF]
      [] side = "left" ->
            IF sidePosition = 0 THEN [x |-> NEGATIVE_SQRT_HALF, y |-> SQRT_HALF]
            ELSE [x |-> NEGATIVE_SQRT_HALF, y |-> NEGATIVE_SQRT_HALF]
      [] OTHER -> [x |-> 0, y |-> 0]

calculateSurfaceNormal(point, isCorner) ==
    IF isCorner THEN calculateCornerNormal(point.side, point.sidePosition)
    ELSE CASE point.side = "top"    -> [x |-> 0, y |-> -Scale]
           [] point.side = "right"  -> [x |-> Scale, y |-> 0]
           [] point.side = "bottom" -> [x |-> 0, y |-> Scale]
           [] point.side = "left"   -> [x |-> -Scale, y |-> 0]
           [] OTHER -> [x |-> 0, y |-> 0]

\* mutant: the offset is taken off the distance, not added to it
calculatePerceivedCursorToward(mouseX, mouseY, centerX, centerY, offset) ==
    IF offset = 0 THEN [x |-> mouseX, y |-> mouseY]
    ELSE LET directionX == mouseX - centerX
             directionY == mouseY - centerY
             distance == calculateDistance(mouseX, mouseY, centerX, centerY)
             normalized == normalizeVector(directionX, directionY)
             perceivedDistance == distance - offset
         IN  IF distance = 0 THEN [x |-> centerX + offset, y |-> centerY]
             ELSE [x |-> centerX + MulS(perceivedDistance, normalized.x),
                   y |-> centerY + MulS(perceivedDistance, normalized.y)]

calculatePerceivedCursor(mouseX, mouseY, centerX, centerY, offset) ==
    IF offset = 0 THEN [x |-> mouseX, y |-> mouseY]
    ELSE LET directionX == mouseX - centerX
             directionY == mouseY - centerY
             distance == calculateDistance(mouseX, mouseY, centerX, centerY)
             normalized == normalizeVector(directionX, directionY)
             perceivedDistance == distance + offset
         IN  IF distance = 0 THEN [x |-> centerX + offset, y |-> centerY]
             ELSE [x |-> centerX + MulS(perceivedDistance, normalized.x),
                   y |-> centerY + MulS(perceivedDistance, normalized.y)]

SeqIncludes(seq, e) == \E i \in 1..Len(seq) : seq[i] = e

AdjacentSides(point) ==
    CASE point.side = "top" ->
            IF point.sidePosition = 0 THEN <<"top", "left">> ELSE <<"top", "right">>
      [] point.side = "right" ->
            IF point.sidePosition = 0 THEN <<"right", "top">> ELSE <<"right", "bottom">>
      [] point.side = "bottom" ->
            IF point.sidePosition = 0 THEN <<"bottom", "right">> ELSE <<"bottom", "left">>
      [] point.side = "left" ->
            IF point.sidePosition = 0 THEN <<"left", "bottom">> ELSE <<"left", "top">>
      [] OTHER -> << >>

\* mutant: one active adjacent side is enough (some instead of every)
checkCornerActivitySome(point, activeSides) ==
    LET adjacentSides == AdjacentSides(point)
    IN  \E i \in 1..Len(adjacentSides) : SeqIncludes(activeSides, adjacentSides[i])

checkCornerActivity(point, activeSides) ==
    LET adjacentSides == AdjacentSides(point)
    IN  \A i \in 1..Len(adjacentSides) : SeqIncludes(activeSides, adjacentSides[i])

\* mutant: no blend zone, every point that is not flagged a corner keeps the strength
applyCornerDampeningNoBlend(strength, isCorner, point, factor) ==
    IF isCorner THEN MulS(strength, factor) ELSE strength

applyCornerDampening(strength, isCorner, point, factor) ==
    IF isCorner THEN MulS(strength, factor)
    ELSE LET distanceFromCorner == MinI(point.sidePosition, Scale - point.sidePosition)
             normalizedDistance == DivS(distanceFromCorner, CORNER_BLEND_FACTOR)
             smoothFactor == Scale - PowS(Scale - normalizedDistance, POWER_OF_TWO)
             cornerDampening == factor + MulS(Scale - factor, smoothFactor)
         IN  IF distanceFromCorner < CORNER_BLEND_FACTOR
             THEN MulS(strength, cornerDampening)
             ELSE strength

calculateDeformation(point, cursorX, cursorY, strength, mode, isCorner) ==
    LET pointToCursorDirection == normalizeVector(cursorX - point.baseX, cursorY - point.baseY)
    IN  IF mode = "cursor"
        THEN [newX |-> point.baseX + MulS(strength, pointToCursorDirection.x),
              newY |-> point.baseY + MulS(strength, pointToCursorDirection.y),
              directionX |-> pointToCursorDirection.x,
              directionY |-> pointToCursorDirection.y]
        ELSE LET surfaceNormal == calculateSurfaceNormal(point, isCorner)
                 dotProduct == MulS(surfaceNormal.x, pointToCursorDirection.x)
                               + MulS(surfaceNormal.y, pointToCursorDirection.y)
                 directionalForce == IF dotProduct > 0 THEN MulS(strength, dotProduct) ELSE 0
             IN  [newX |-> point.baseX + MulS(directionalForce, surfaceNormal.x),
                  newY |-> point.baseY + MulS(directionalForce, surfaceNormal.y),
                  directionX |-> surfaceNormal.x,
                  directionY |-> surfaceNormal.y]

clampCornerMovement(point, newX, newY, rectCenterX, rectCenterY) ==
    LET isLeftCorner == point.baseX < rectCenterX
        isTopCorner == point.baseY < rectCenterY
    IN  [x |-> IF (isLeftCorner /\ newX > point.baseX) \/ (~isLeftCorner /\ newX < point.baseX)
               THEN point.baseX ELSE newX,
         y |-> IF (isTopCorner /\ newY > point.baseY) \/ (~isTopCorner /\ newY < point.baseY)
               THEN point.baseY ELSE newY]

\* mutant: the side clamp is left out
clampSideMovementNone(point, nx, ny) == [x |-> nx, y |-> ny]

clampSideMovement(point, nx, ny) ==
    CASE point.side = "top"    -> [x |-> nx, y |-> MinI(ny, point.baseY)]
      [] point.side = "right"  -> [x |-> MaxI(nx, point.baseX), y |-> ny]
      [] point.side = "bottom" -> [x |-> nx, y |-> MaxI(ny, point.baseY)]
      [] point.side = "left"   -> [x |-> MinI(nx, point.baseX), y |-> ny]
      [] OTHER -> [x |-> nx, y |-> ny]

\* config.width / MATH_CONSTANTS.HALF divides by 0.5
preventInwardMovement(point, newX, newY, isCorner, config) ==
    IF isCorner
    THEN LET rectCenterX == DivS(config.width, HALF)
             rectCenterY == DivS(config.height, HALF)
         IN  clampCornerMovement(point, newX, newY, rectCenterX, rectCenterY)
    ELSE clampSideMovement(point, newX, newY)

\* mutant: the distance is clamped with Math.min, not Math.max
computeAttractionMinClamp(point, isCornerPoint, ctx) ==
    LET pointScreenX == ctx.centerX + (point.baseX - ctx.svgCenterX)
        pointScreenY == ctx.centerY + (point.baseY - ctx.svgCenterY)
        rawPointDistance == calculateDistance(ctx.perceivedCursor.x, ctx.perceivedCursor.y,
                                              pointScreenX, pointScreenY)
        pointDistanceToMouse == MinI(rawPointDistance, ctx.physicsConfig.minDistance)
        baseMagneticForce == calculateBaseMagneticForce(pointDistanceToMouse, ctx.effectiveDistance)
        attractionStrength ==
            applyCornerDampening(MulS(ctx.pathStrength, baseMagneticForce), isCornerPoint,
                                 point, ctx.cornerDeflectionFactor)
        deformation ==
            calculateDeformation(point,
                                 ctx.perceivedCursor.x - ctx.centerX + ctx.svgCenterX,
                                 ctx.perceivedCursor.y - ctx.centerY + ctx.svgCenterY,
                                 attractionStrength, ctx.deformationMode, isCornerPoint)
        stretchAmount == calculateStretch(baseMagneticForce, ctx.pathStrength, ctx.physicsConfig)
    IN  [x |-> IF stretchAmount > 0
               THEN deformation.newX + MulS(stretchAmount, deformation.directionX)
               ELSE deformation.newX,
         y |-> IF stretchAmount > 0
               THEN deformation.newY + MulS(stretchAmount, deformation.directionY)
               ELSE deformation.newY]

computeAttraction(point, isCornerPoint, ctx) ==
    LET pointScreenX == ctx.centerX + (point.baseX - ctx.svgCenterX)
        pointScreenY == ctx.centerY + (point.baseY - ctx.svgCenterY)
        rawPointDistance == calculateDistance(ctx.perceivedCursor.x, ctx.perceivedCursor.y,
                                              pointScreenX, pointScreenY)
        pointDistanceToMouse == MaxI(rawPointDistance, ctx.physicsConfig.minDistance)
        baseMagneticForce == calculateBaseMagneticForce(pointDistanceToMouse, ctx.effectiveDistance)
        attractionStrength ==
            applyCornerDampening(MulS(ctx.pathStrength, baseMagneticForce), isCornerPoint,
                                 point, ctx.cornerDeflectionFactor)
        deformation ==
            calculateDeformation(point,
                                 ctx.perceivedCursor.x - ctx.centerX + ctx.svgCenterX,
                                 ctx.perceivedCursor.y - ctx.centerY + ctx.svgCenterY,
                                 attractionStrength, ctx.deformationMode, isCornerPoint)
        stretchAmount == calculateStretch(baseMagneticForce, ctx.pathStrength, ctx.physicsConfig)
    IN  [x |-> IF stretchAmount > 0
               THEN deformation.newX + MulS(stretchAmount, deformation.directionX)
               ELSE deformation.newX,
         y |-> IF stretchAmount > 0
               THEN deformation.newY + MulS(stretchAmount, deformation.directionY)
               ELSE deformation.newY]

IsCornerPoint(point) == point.sidePosition = 0 \/ point.sidePosition = Scale

\* mutant: the displaced position is written into the base coordinates too
transformPointRebased(point, ctx) ==
    LET isActive == SeqIncludes(ctx.activeSides, point.side)
        isCornerPoint == IsCornerPoint(point)
        adj == computeAttraction(point, isCornerPoint, ctx)
        prevented == preventInwardMovement(point, adj.x, adj.y, isCornerPoint, ctx.physicsConfig)
    IN  IF isCornerPoint /\ ~checkCornerActivity(point, ctx.activeSides) THEN point
        ELSE IF ~isCornerPoint /\ ~isActive THEN point
        ELSE [point EXCEPT !.x = prevented.x, !.y = prevented.y,
                           !.baseX = prevented.x, !.baseY = prevented.y]

\* mutant: the activity gate is left out
transformPointNoGate(point, ctx) ==
    LET isCornerPoint == IsCornerPoint(point)
        adj == computeAttraction(point, isCornerPoint, ctx)
        prevented == preventInwardMovement(point, adj.x, adj.y, isCornerPoint, ctx.physicsConfig)
    IN  [point EXCEPT !.x = prevented.x, !.y = prevented.y]

transformPoint(point, ctx) ==
    LET isActive == SeqIncludes(ctx.activeSides, point.side)
        isCornerPoint == IsCornerPoint(point)
        adj == computeAttraction(point, isCornerPoint, ctx)
        prevented == preventInwardMovement(point, adj.x, adj.y, isCornerPoint, ctx.physicsConfig)
    IN  IF isCornerPoint /\ ~checkCornerActivity(point, ctx.activeSides) THEN point
        ELSE IF ~isCornerPoint /\ ~isActive THEN point
        ELSE [point EXCEPT !.x = prevented.x, !.y = prevented.y]

\* the path string "M x,y L x,y ... Z", one token per command
buildPathFromPoints(points) ==
    IF Len(points) = 0 THEN << >>
    ELSE [i \in 1..(Len(points) + 1) |->
            IF i = 1 THEN <<"M", points[1].x, points[1].y>>
            ELSE IF i <= Len(points) THEN <<"L", points[i].x, points[i].y>>
            ELSE <<"Z">>]

\* mutant: the comparator leaves out the tie-break on sidePosition
ComparePointsBySideOnly(a, b) == getSortOrder(a) - getSortOrder(b)

\* the comparator handed to Array.prototype.sort
ComparePoints(a, b) ==
    IF getSortOrder(a) # getSortOrder(b) THEN getSortOrder(a) - getSortOrder(b)
    ELSE a.sidePosition - b.sidePosition

\* Array.prototype.sort is stable: a point goes after every point it does not precede
RECURSIVE InsertPoint(_, _)
InsertPoint(sorted, p) ==
    IF sorted = << >> THEN <<p>>
    ELSE IF ComparePoints(p, Head(sorted)) < 0 THEN <<p>> \o sorted
    ELSE <<Head(sorted)>> \o InsertPoint(Tail(sorted), p)

RECURSIVE SortPoints(_)
SortPoints(points) ==
    IF points = << >> THEN << >>
    ELSE InsertPoint(SortPoints(SubSeq(points, 1, Len(points) - 1)), points[Len(points)])

TransformContext(config, params) ==
    [activeSides |-> config.activeSides,
     physicsConfig |-> config.physicsConfig,
     perceivedCursor |-> calculatePerceivedCursor(params.mouseX, params.mouseY,
                                                  params.centerX, params.centerY,
                                                  config.perceivedCursorOffset),
     svgCenterX |-> DivS(config.width, HALF),
     svgCenterY |-> DivS(config.height, HALF),
     centerX |-> params.centerX,
     centerY |-> params.centerY,
     pathStrength |-> params.strength,
     cornerDeflectionFactor |-> config.cornerDeflectionFactor,
     deformationMode |-> config.deformationMode,
     effectiveDistance |-> params.effectiveDistance]

\* mutant: a point that is not to be moved is left out
LavaPointsActiveOnly(config, params) ==
    LET points == generateRectanglePoints([width |-> config.width, height |-> config.height],
                                          config.activeSides, config.pointsPerSide)
        ctx == TransformContext(config, params)
        moving == SelectSeq(points, LAMBDA q :
                     IF IsCornerPoint(q) THEN checkCornerActivity(q, config.activeSides)
                     ELSE SeqIncludes(config.activeSides, q.side))
    IN  SortPoints([i \in 1..Len(moving) |-> transformPoint(moving[i], ctx)])

\* the transformed points of generateLavaPath, sorted
LavaPoints(config, params) ==
    LET points == generateRectanglePoints([width |-> config.width, height |-> config.height],
                                          config.activeSides, config.pointsPerSide)
        ctx == TransformContext(config, params)
    IN  SortPoints([i \in 1..Len(points) |-> transformPoint(points[i], ctx)])

\* useLavaPathGenerator's callback; config.hasSvg stands for svgRef.current
generateLavaPath(config, params) ==
    IF ~config.hasSvg THEN << >>
    ELSE buildPathFromPoints(LavaPoints(config, params))

-----------------------------------------------------------------------------
(* MagneticButton.tsx: configuration the hooks close over *)

\* usePhysicsSetup
PhysicsConfig(width, height, offset) ==
    [width |-> width, height |-> height,
     stretchiness |-> DEFAULT_STRETCHINESS,
     minDistance |-> Px(DEFAULT_MIN_DISTANCE),
     perceivedCursorOffset |-> offset]

\* the config object handed to useLavaPathGenerator by useMagneticRectangleLogic
LavaConfig(activeSides, pointsPerSide, offset, mode) ==
    [width |-> Px(RectWidth), height |-> Px(RectHeight),
     activeSides |-> activeSides,
     pointsPerSide |-> pointsPerSide,
     perceivedCursorOffset |-> offset,
     physicsConfig |-> PhysicsConfig(Px(RectWidth), Px(RectHeight), offset),
     cornerDeflectionFactor |-> DEFAULT_CORNER_DEFLECTION,
     deformationMode |-> mode,
     hasSvg |-> TRUE]

\* svgRect.left + svgRect.width / MATH_CONSTANTS.HALF (and top, height)
RectCenter(left, top, width, height) ==
    [x |-> left + DivS(width, HALF), y |-> top + DivS(height, HALF)]

-----------------------------------------------------------------------------
(* Inputs the model draws *)

SidesOrder == <<"top", "right", "bottom", "left">>
SeqOfSides(S) == SelectSeq(SidesOrder, LAMBDA s : s \in S)
Reverse(seq) == [i \in 1..Len(seq) |-> seq[Len(seq) + 1 - i]]
\* activeSides arrays: every subset of the sides, in clockwise and in reverse order
ActiveSidesChoices ==
    {SeqOfSides(S) : S \in SUBSET Sides} \cup {Reverse(SeqOfSides(S)) : S \in SUBSET Sides}

MouseGrid == {Px(i * GridStep) : i \in 0..MaxGrid}
PointsPerSideChoices == 1..MaxSolverPointsPerSide
OffsetChoices == {0, Px(DEFAULT_PERCEIVED_OFFSET)}
StrengthChoices == {0, Px(Strength)}

SolverConfigs ==
    {LavaConfig(a, n, o, m) : a \in ActiveSidesChoices, n \in PointsPerSideChoices,
                              o \in OffsetChoices, m \in Modes}

\* the pointer on the grid, or as far away as the resting branch of
\* useMagneticEffect puts it
SolverParams ==
    LET c == RectCenter(Px(RectLeft), Px(RectTop), Px(RectWidth), Px(RectHeight))
    IN  {[mouseX |-> mx, mouseY |-> my, centerX |-> c.x, centerY |-> c.y,
          strength |-> st, effectiveDistance |-> e] :
            mx \in MouseGrid, my \in MouseGrid, st \in StrengthChoices,
            e \in {Px(Distance), Px(EffDistance)}}
        \cup {[mouseX |-> c.x + Px(FAR_AWAY_DISTANCE), mouseY |-> c.y + Px(FAR_AWAY_DISTANCE),
               centerX |-> c.x, centerY |-> c.y,
               strength |-> st, effectiveDistance |-> Px(EffDistance)] :
                 st \in StrengthChoices}

-----------------------------------------------------------------------------
(* MagneticButton.tsx: the MagneticLavaRectangle component.  width and      *)
(* height are given as props, so the svg and path elements exist from the  *)
(* first commit and the viewBox maps one screen unit to one path unit.     *)

NoPath == << >>
NoReq == [kind |-> "none"]
NoPointer == << >>

\* what useMagneticRectangleLogic hands to useLavaPathGenerator
RectConfig ==
    LavaConfig(<<"right", "bottom">>, MaxPointsPerSide, Px(DEFAULT_PERCEIVED_OFFSET),
               "surface-normal")

\* svgRef.current.getBoundingClientRect() with the page scrolled by sy steps
SvgRect(sy) ==
    [left |-> Px(RectLeft), top |-> Px(RectTop) - sy * Px(ScrollStep),
     width |-> Px(RectWidth), height |-> Px(RectHeight)]

PathVertices(path) == SelectSeq(path, LAMBDA t : t[1] # "Z")

\* the edge from a to b crosses the ray that leaves (px, py) toward +x
EdgeCrosses(a, b, px, py) ==
    /\ (a[3] > py) # (b[3] > py)
    /\ IF b[3] > a[3]
       THEN (px - a[2]) * (b[3] - a[3]) < (b[2] - a[2]) * (py - a[3])
       ELSE (px - a[2]) * (b[3] - a[3]) > (b[2] - a[2]) * (py - a[3])

\* SVGGeometryElement.isPointInFill on the path element as it is drawn now
isPointInFill(path, px, py) ==
    LET poly == PathVertices(path)
        n == Len(poly)
        crossing == {i \in 1..n : EdgeCrosses(poly[i], poly[(i % n) + 1], px, py)}
    IN  Cardinality(crossing) % 2 = 1

\* mutant: the catch block answers false
isPointInCurrentShapeNoFallback(cl, attr, sy, x, y) ==
    LET rect == SvgRect(sy)
        localX == MulS(Px(RectWidth), DivS(x - rect.left, rect.width))
        localY == MulS(Px(RectHeight), DivS(y - rect.top, rect.height))
    IN  IF cl.currentPath = NoPath THEN FALSE
        ELSE IF ~props.fillThrows THEN isPointInFill(attr, localX, localY)
        ELSE FALSE

\* useShapeDetection's callback, closed over config.currentPath
isPointInCurrentShape(cl, attr, sy, x, y) ==
    LET rect == SvgRect(sy)
        localX == MulS(Px(RectWidth), DivS(x - rect.left, rect.width))
        localY == MulS(Px(RectHeight), DivS(y - rect.top, rect.height))
    IN  IF cl.currentPath = NoPath THEN FALSE
        ELSE IF ~props.fillThrows THEN isPointInFill(attr, localX, localY)
        ELSE localX >= 0 /\ localX <= Px(RectWidth) /\ localY >= 0 /\ localY <= Px(RectHeight)

\* useInsideDetection's callback, closed over isInside
handleInsideDetection(st, cl, sy, mouseX, mouseY) ==
    LET currentlyInside == isPointInCurrentShape(cl, st.pathAttr, sy, mouseX, mouseY)
    IN  IF currentlyInside # cl.isInside
        THEN [st EXCEPT !.isInside = currentlyInside,
                        !.notified = Append(@, currentlyInside)]
        ELSE st

computeEffectiveDistance(fullWindow, rectCenterX, rectCenterY, distance) ==
    IF fullWindow
    THEN MaxI(MaxI(rectCenterX, Px(ViewportWidth) - rectCenterX),
              MaxI(rectCenterY, Px(ViewportHeight) - rectCenterY))
    ELSE distance

\* gsap.to(el, { attr: { d }, duration, ease }): gsap 3 overwrites nothing
\* unless asked to, so the new tween joins the ones it holds for el
gsapTo(tws, d, total) ==
    Append(tws, [d |-> d, total |-> total, elapsed |-> 0, started |-> FALSE, from |-> NoPath])

\* usePathAnimation's callback; a duration is a count of frames, as a ratio
animatePath(st, path, isActive) ==
    LET multiplier == IF isActive THEN DURATION_MULTIPLIER ELSE Scale
    IN  [st EXCEPT !.currentPath = path,
                   !.tweens = gsapTo(@, path, Duration * multiplier)]

\* useMagneticEffect's callback, lines 570-602: the center, the branch and
\* the target path of a recompute, which the attractor and the place of the
\* svg decide
MagneticTarget(fullWindow, sy, mouseX, mouseY) ==
    LET svgRect == SvgRect(sy)
        c == RectCenter(svgRect.left, svgRect.top, svgRect.width, svgRect.height)
        distanceToBoundary ==
            calculateDistanceToRectangleBoundary(mouseX, mouseY, svgRect.left, svgRect.top,
                                                 svgRect.width, svgRect.height)
        effectiveStrength == calculateDistanceBasedStrength(distanceToBoundary, Px(Strength))
        actualDistance == calculateDistance(mouseX, mouseY, c.x, c.y)
        effectiveDistance == computeEffectiveDistance(fullWindow, c.x, c.y, Px(Distance))
        isActive == fullWindow \/ actualDistance < Px(Distance)
        pathParams ==
            [mouseX |-> IF isActive THEN mouseX ELSE c.x + Px(FAR_AWAY_DISTANCE),
             mouseY |-> IF isActive THEN mouseY ELSE c.y + Px(FAR_AWAY_DISTANCE),
             centerX |-> c.x, centerY |-> c.y,
             strength |-> IF isActive THEN effectiveStrength ELSE 0,
             effectiveDistance |-> effectiveDistance]
    IN  [mouseX |-> mouseX, mouseY |-> mouseY, centerX |-> c.x, centerY |-> c.y,
         isActive |-> isActive, strength |-> pathParams.strength,
         effectiveDistance |-> effectiveDistance,
         path |-> generateLavaPath(RectConfig, pathParams)]

\* the attractors a recompute can have: a place the pointer visits, or the
\* origin, which handleScroll passes
CompMouseXs == {Px(i * CompGridStep) : i \in 1..MaxCompGrid}
CompMouseYs == {Px(CompGridStep)}
Attractors == (CompMouseXs \X CompMouseYs) \cup {<<0, 0>>}

\* MagneticTarget of every recompute the model draws, computed once
MagneticTargets ==
    [k \in BOOLEAN \X (0..MaxScroll) \X Attractors |->
        MagneticTarget(k[1], k[2], k[3][1], k[3][2])] @@ << >>

\* the rest of useMagneticEffect's callback, lines 593-601, run by a listener
\* that closed over cl: the inside test at the attractor, then the tween
calculateMagneticEffect(st, cl, sy, target, kind) ==
    LET detected == handleInsideDetection(st, cl, sy, target.mouseX, target.mouseY)
        animated == animatePath(detected, target.path, target.isActive)
    IN  [animated EXCEPT !.lastReq =
            [kind |-> kind, scrollY |-> sy, target |-> target,
             emitted |-> cl.currentPath # NoPath,
             inside |-> isPointInCurrentShape(cl, st.pathAttr, sy, target.mouseX, target.mouseY)]]

\* the path useInitialPath generates
InitialPath ==
    LET svgCenterX == DivS(Px(RectWidth), HALF)
        svgCenterY == DivS(Px(RectHeight), HALF)
    IN  generateLavaPath(RectConfig,
            [mouseX |-> svgCenterX + Px(FAR_AWAY_DISTANCE),
             mouseY |-> svgCenterY + Px(FAR_AWAY_DISTANCE),
             centerX |-> svgCenterX, centerY |-> svgCenterY,
             strength |-> 0, effectiveDistance |-> Px(FAR_AWAY_DISTANCE)])

\* mutant: the initial path is animated in, as every later path is
useInitialPathAnimated(st) == animatePath(st, InitialPath, FALSE)

\* useInitialPath's effect: setAttribute('d', initialPath), setCurrentPath(initialPath)
useInitialPath(st) == [st EXCEPT !.pathAttr = InitialPath, !.currentPath = InitialPath]

\* the value a tween draws, `num / den` of the way from one path to another
Interpolate(from, to, num, den) ==
    IF Len(from) # Len(to) THEN to
    ELSE [i \in 1..Len(to) |->
            IF Len(to[i]) = 1 THEN to[i]
            ELSE <<to[i][1],
                   from[i][2] + DivT((to[i][2] - from[i][2]) * num, den),
                   from[i][3] + DivT((to[i][3] - from[i][3]) * num, den)>>]

\* the ease prop: "steps(1)", which holds the start value until the tween ends
Ease(progress) == IF progress >= Scale THEN Scale ELSE 0

\* one frame of gsap's ticker: every tween of the element advances and draws,
\* oldest first, reading its start value when it first draws; a tween that
\* reached its duration is dropped
RECURSIVE RenderTweens(_, _)
RenderTweens(tws, attr) ==
    IF tws = << >> THEN [pathAttr |-> attr, tweens |-> << >>]
    ELSE LET tw == Head(tws)
             from == IF tw.started THEN tw.from ELSE attr
             elapsed == tw.elapsed + 1
             progress == DivS(MinI(elapsed * Scale, tw.total), tw.total)
             drawn == Interpolate(from, tw.d, Ease(progress), Scale)
             rest == RenderTweens(Tail(tws), drawn)
             kept == IF elapsed * Scale >= tw.total THEN << >>
                     ELSE <<[tw EXCEPT !.elapsed = elapsed, !.started = TRUE, !.from = from]>>
         IN  [pathAttr |-> rest.pathAttr, tweens |-> kept \o rest.tweens]

\* the part of the state a handler reads and writes
Held ==
    [isInside |-> isInside, currentPath |-> currentPath, pathAttr |-> pathAttr,
     tweens |-> tweens, notified |-> notified, lastReq |-> lastReq]

Put(st) ==
    /\ Len(st.tweens) <= MaxTweens
    /\ Len(st.notified) <= MaxNotify
    /\ isInside' = st.isInside
    /\ currentPath' = st.currentPath
    /\ pathAttr' = st.pathAttr
    /\ tweens' = st.tweens
    /\ notified' = st.notified
    /\ lastReq' = st.lastReq

InitRectWith(p) ==
    /\ props = p
    /\ mounted = FALSE
    /\ scrollY = 0
    /\ isInside = FALSE
    /\ currentPath = NoPath
    /\ closure = [isInside |-> FALSE, currentPath |-> NoPath]
    /\ pathAttr = NoPath
    /\ tweens = << >>
    /\ notified = << >>
    /\ lastPointer = NoPointer
    /\ lastReq = NoReq

\* the first render and its effects: the listeners of useGlobalListeners
\* close over the rendered state, then useInitialPath's effect runs
Mount ==
    /\ ~mounted
    /\ mounted' = TRUE
    /\ closure' = [isInside |-> isInside, currentPath |-> currentPath]
    /\ Put(useInitialPath(Held))
    /\ UNCHANGED <<props, scrollY, lastPointer>>
    /\ UNCHANGED <<solverVars, hookVars>>

\* a re-render (a state update, or the parent rendering) and its effects:
\* every callback is rebuilt, since every config object is a new one, so
\* the listeners are registered anew and useInitialPath's effect runs again
Rerender ==
    /\ mounted
    /\ closure' = [isInside |-> isInside, currentPath |-> currentPath]
    /\ Put(useInitialPath(Held))
    /\ UNCHANGED <<props, mounted, scrollY, lastPointer>>
    /\ UNCHANGED <<solverVars, hookVars>>

\* handleGlobalMouseMove
MouseMove(x, y) ==
    /\ mounted
    /\ lastPointer' = <<x, y>>
    /\ \E target \in {MagneticTargets[<<props.fullWindow, scrollY, <<x, y>>>>]} :
       \E st \in {calculateMagneticEffect(Held, closure, scrollY, target, "move")} :
          Put(st)
    /\ UNCHANGED <<props, mounted, scrollY, closure>>
    /\ UNCHANGED <<solverVars, hookVars>>

\* handleScroll, which is registered on document and on window: a scroll of
\* the page is dispatched to document and bubbles to window, so it runs twice
Scroll(sy) ==
    /\ mounted
    /\ sy # scrollY
    /\ scrollY' = sy
    /\ \E target \in {MagneticTargets[<<props.fullWindow, sy, <<0, 0>>>>]} :
       \E onDocument \in {calculateMagneticEffect(Held, closure, sy, target, "scroll")} :
       \E onWindow \in {calculateMagneticEffect(onDocument, closure, sy, target, "scroll")} :
          Put(onWindow)
    /\ UNCHANGED <<props, mounted, closure, lastPointer>>
    /\ UNCHANGED <<solverVars, hookVars>>

\* a frame of the rendering clock
Tick ==
    /\ tweens # << >>
    /\ LET r == RenderTweens(tweens, pathAttr)
       IN  /\ pathAttr' = r.pathAttr
           /\ tweens' = r.tweens
    /\ UNCHANGED <<props, mounted, scrollY, isInside, currentPath, closure, notified,
                   lastPointer, lastReq>>
    /\ UNCHANGED <<solverVars, hookVars>>

Next ==
    \/ Mount
    \/ Rerender
    \/ \E x \in CompMouseXs, y \in CompMouseYs : MouseMove(x, y)
    \/ \E sy \in 0..MaxScroll : Scroll(sy)
    \/ Tick

-----------------------------------------------------------------------------
(* useMagnetic (src/src/hooks/useMagnetic.ts): an element drawn toward the *)
(* pointer.  The element is HookWidth x HookHeight, laid out at            *)
(* (HookLeft, HookTop) of the page.                                        *)

HookWidth == 80
HookHeight == 40
HookLeft == 20
HookTop == 140
MaxHookGrid == 1
HookGridStep == 160
MaxHookTweens == 1
DEFAULT_DISTANCE == 100
CUBE == 3
CAPPED_NEAR == 5
CAPPED_SCALE == 100

\* a value the caller may leave undefined is a sequence of at most one
\* element: << >> is undefined, <<v>> is v
Undefined == << >>

\* defaultConfig; a duration is a count of frames; ease is kept as the caller
\* may give it, a value or undefined
defaultConfig ==
    [strength |-> (3 * Scale) \div 10, distance |-> Px(DEFAULT_DISTANCE), duration |-> 1,
     ease |-> <<"power2.out">>, fullWindow |-> FALSE, equation |-> "exponential-plus"]

\* { ...defaultConfig, ...config }
mergedConfig(config) ==
    [k \in DOMAIN defaultConfig |-> IF k \in DOMAIN config THEN config[k] ELSE defaultConfig[k]]

\* the configs the host passes; the exponential equations, which need
\* Math.exp, are not among them
HookConfigs ==
    {[fullWindow |-> fw, equation |-> eq] :
        fw \in BOOLEAN, eq \in {"original", "capped", "percentage"}}
    \cup {[fullWindow |-> FALSE, equation |-> "original", ease |-> e] :
            e \in {Undefined, <<"none">>}}

\* element.getBoundingClientRect(): the layout box, scrolled by sy steps and
\* translated by the x, y gsap has set
HookRect(sy, pos) ==
    [left |-> Px(HookLeft) + pos.x, top |-> Px(HookTop) - sy * Px(ScrollStep) + pos.y,
     width |-> Px(HookWidth), height |-> Px(HookHeight)]

\* the switch on mergedConfig.equation, lines 62-135
hookTargetPosition(equation, distance, direction, attractionStrength) ==
    LET unit == DivS(direction, distance)
        movementMagnitude ==
            IF distance < Px(CAPPED_NEAR)
            THEN MulS(distance, attractionStrength)
            ELSE MinI(MulS(Px(CAPPED_SCALE), attractionStrength), distance \div 2)
    IN  CASE equation = "capped" ->
                IF distance > 0 THEN MulS(movementMagnitude, unit) ELSE 0
          [] equation = "percentage" ->
                MulS(direction, MulS(attractionStrength, (8 * Scale) \div 10))
          [] OTHER -> MulS(direction, attractionStrength)

\* calculateMagneticEffect, lines 39-57: the branch it takes and the target
hookTarget(config, sy, pos, mouseX, mouseY) ==
    LET rect == HookRect(sy, pos)
        centerX == rect.left + rect.width \div 2
        centerY == rect.top + rect.height \div 2
        distance == calculateDistance(mouseX, mouseY, centerX, centerY)
        effectiveDistance ==
            IF config.fullWindow
            THEN MaxI(MaxI(centerX, Px(ViewportWidth) - centerX),
                      MaxI(centerY, Px(ViewportHeight) - centerY))
            ELSE config.distance
        normalizedDistance == DivS(distance, effectiveDistance)
        magneticForce == PowS(Scale - MinI(normalizedDistance, Scale), CUBE)
        attractionStrength == MulS(magneticForce, config.strength)
    IN  [active |-> config.fullWindow \/ distance < config.distance,
         x |-> hookTargetPosition(config.equation, distance, mouseX - centerX,
                                  attractionStrength),
         y |-> hookTargetPosition(config.equation, distance, mouseY - centerY,
                                  attractionStrength)]

\* processMousePosition of the refactored hook (src/unnamed/part_006): the
\* same decision and target, about the center rect.left + rect.width / HALF
processMousePosition(config, sy, pos, mouseX, mouseY) ==
    LET rect == HookRect(sy, pos)
        centerX == rect.left + DivS(rect.width, HALF)
        centerY == rect.top + DivS(rect.height, HALF)
        distance == calculateDistance(mouseX, mouseY, centerX, centerY)
        effectiveDistance ==
            IF config.fullWindow
            THEN MaxI(MaxI(centerX, Px(ViewportWidth) - centerX),
                      MaxI(centerY, Px(ViewportHeight) - centerY))
            ELSE config.distance
        normalizedDistance == DivS(distance, effectiveDistance)
        magneticForce == PowS(Scale - MinI(normalizedDistance, Scale), CUBE)
        attractionStrength == MulS(magneticForce, config.strength)
    IN  [active |-> config.fullWindow \/ distance < config.distance,
         x |-> hookTargetPosition(config.equation, distance, mouseX - centerX,
                                  attractionStrength),
         y |-> hookTargetPosition(config.equation, distance, mouseY - centerY,
                                  attractionStrength)]

\* resetPosition: gsap.to(element, { x: 0, y: 0, ... })
resetPosition(tws) == Append(tws, [x |-> 0, y |-> 0])

\* calculateMagneticEffect of the hook, given the target it computed
hookCalculateMagneticEffect(tws, target) ==
    IF target.active THEN Append(tws, [x |-> target.x, y |-> target.y])
    ELSE resetPosition(tws)

\* EventTarget.addEventListener: a listener is its type, callback and capture
\* flag; one that is already in the list is not added again
addEventListener(listeners, target, type, handler, options) ==
    listeners \cup {[target |-> target, type |-> type, handler |-> handler,
                     capture |-> options.capture]}

\* EventTarget.removeEventListener: removes the listener of that type,
\* callback and capture flag; passive takes no part in the match
removeEventListener(listeners, target, type, handler, options) ==
    listeners \ {[target |-> target, type |-> type, handler |-> handler,
                  capture |-> options.capture]}

NoOptions == [capture |-> FALSE, passive |-> FALSE]
PassiveOptions == [capture |-> FALSE, passive |-> TRUE]

\* the three addEventListener calls of an effect run, whose callbacks are
\* the functions that run created
hookEffect(listeners, run) ==
    LET moved == addEventListener(listeners, "document", "mousemove", run, NoOptions)
        scrolled == addEventListener(moved, "document", "scroll", run, PassiveOptions)
    IN  addEventListener(scrolled, "element", "mouseleave", run, NoOptions)

\* mutant: the cleanup leaves the scroll listener registered
hookCleanupKeepsScroll(listeners, run) ==
    LET moved == removeEventListener(listeners, "document", "mousemove", run, NoOptions)
    IN  removeEventListener(moved, "element", "mouseleave", run, NoOptions)

\* the cleanup an effect run returns: the three removeEventListener calls
hookCleanup(listeners, run) ==
    LET moved == removeEventListener(listeners, "document", "mousemove", run, NoOptions)
        scrolled == removeEventListener(moved, "document", "scroll", run, NoOptions)
    IN  removeEventListener(scrolled, "element", "mouseleave", run, NoOptions)

\* the effect runs whose callbacks are registered, and the last of them
RegisteredHandlers(listeners) == {l.handler : l \in listeners}
LastRun(listeners) ==
    CHOOSE n \in RegisteredHandlers(listeners) : \A m \in RegisteredHandlers(listeners) : m <= n
\* the callbacks of an effect run are new functions, equal to none registered
FreshHandler(listeners) == IF listeners = {} THEN 0 ELSE LastRun(listeners) + 1
Listening(listeners, target, type) ==
    \E l \in listeners : l.target = target /\ l.type = type

\* the places the pointer visits: a row at the height of the element's center
HookMouseGrid == {Px(i * HookGridStep) : i \in 0..MaxHookGrid}
HookMouseRow == {Px(HookGridStep)}
NoCall == [kind |-> "none"]

InitHookWith(config) ==
    /\ hGiven = config
    /\ hCfg = mergedConfig(config)
    /\ hMounted = FALSE
    /\ hListeners = {}
    /\ hScrollY = 0
    /\ hLastMouse = <<0, 0>>
    /\ hPointer = NoPointer
    /\ hPos = [x |-> 0, y |-> 0]
    /\ hTweens = << >>
    /\ hLastCall = NoCall

\* the effect's first run: lastMouseX = lastMouseY = 0, the listeners are added
HookMount ==
    /\ ~hMounted
    /\ hMounted' = TRUE
    /\ hListeners' = hookEffect(hListeners, FreshHandler(hListeners))
    /\ hLastMouse' = <<0, 0>>
    /\ UNCHANGED <<hGiven, hCfg, hScrollY, hPointer, hPos, hTweens, hLastCall>>
    /\ UNCHANGED <<solverVars, rectVars>>

\* the host renders again with the same props: mergedConfig is a new object,
\* so the effect is cleaned up and runs again, in a new closure
HookRerender ==
    /\ hMounted
    /\ \E cleaned \in {hookCleanup(hListeners, LastRun(hListeners))} :
          hListeners' = hookEffect(cleaned, FreshHandler(cleaned))
    /\ hLastMouse' = <<0, 0>>
    /\ UNCHANGED <<hGiven, hCfg, hMounted, hScrollY, hPointer, hPos, hTweens, hLastCall>>
    /\ UNCHANGED <<solverVars, rectVars>>

\* the host component unmounts: the cleanup of the last effect run
HookUnmount ==
    /\ hMounted
    /\ hMounted' = FALSE
    /\ hListeners' = hookCleanup(hListeners, LastRun(hListeners))
    /\ UNCHANGED <<hGiven, hCfg, hScrollY, hLastMouse, hPointer, hPos, hTweens, hLastCall>>
    /\ UNCHANGED <<solverVars, rectVars>>

\* handleMouseMove
HookMouseMove(x, y) ==
    /\ Listening(hListeners, "document", "mousemove")
    /\ Len(hTweens) < MaxHookTweens
    /\ hLastMouse' = <<x, y>>
    /\ hPointer' = <<x, y>>
    /\ \E target \in {hookTarget(hCfg, hScrollY, hPos, x, y)} :
          /\ hTweens' = hookCalculateMagneticEffect(hTweens, target)
          /\ hLastCall' = [kind |-> "move", mouseX |-> x, mouseY |-> y, target |-> target,
                           rect |-> HookRect(hScrollY, hPos),
                           refactored |-> processMousePosition(hCfg, hScrollY, hPos, x, y)]
    /\ UNCHANGED <<hGiven, hCfg, hMounted, hListeners, hScrollY, hPos>>
    /\ UNCHANGED <<solverVars, rectVars>>

\* handleScroll
HookScroll(sy) ==
    /\ Listening(hListeners, "document", "scroll")
    /\ Len(hTweens) < MaxHookTweens
    /\ sy # hScrollY
    /\ hScrollY' = sy
    /\ \E target \in {hookTarget(hCfg, sy, hPos, hLastMouse[1], hLastMouse[2])} :
          /\ hTweens' = hookCalculateMagneticEffect(hTweens, target)
          /\ hLastCall' = [kind |-> "scroll", mouseX |-> hLastMouse[1],
                           mouseY |-> hLastMouse[2], target |-> target,
                           rect |-> HookRect(sy, hPos),
                           refactored |-> processMousePosition(hCfg, sy, hPos, hLastMouse[1],
                                                               hLastMouse[2])]
    /\ UNCHANGED <<hGiven, hCfg, hMounted, hListeners, hLastMouse, hPointer, hPos>>
    /\ UNCHANGED <<solverVars, rectVars>>

\* mouseleave on the element
HookMouseLeave ==
    /\ Listening(hListeners, "element", "mouseleave")
    /\ Len(hTweens) < MaxHookTweens
    /\ hTweens' = resetPosition(hTweens)
    /\ UNCHANGED <<hGiven, hCfg, hMounted, hListeners, hScrollY, hLastMouse, hPointer, hPos,
                   hLastCall>>
    /\ UNCHANGED <<solverVars, rectVars>>

\* the tweens of the element, which all last mergedConfig.duration, end in
\* the order they were made: the element rests where the last one leads
HookTick ==
    /\ hTweens # << >>
    /\ hPos' = hTweens[Len(hTweens)]
    /\ hTweens' = << >>
    /\ UNCHANGED <<hGiven, hCfg, hMounted, hListeners, hScrollY, hLastMouse, hPointer,
                   hLastCall>>
    /\ UNCHANGED <<solverVars, rectVars>>

NextHook ==
    \/ HookMount
    \/ HookRerender
    \/ HookUnmount
    \/ \E x \in HookMouseGrid, y \in HookMouseRow : HookMouseMove(x, y)
    \/ \E sy \in 0..MaxScroll : HookScroll(sy)
    \/ HookMouseLeave
    \/ HookTick

-----------------------------------------------------------------------------
(* LavaSphereDemo (src/unnamed/part_002): the circular blob.  An exponent  *)
(* (forceCurveExponent, dampeningPower) is a count of halves: 5 is 2.5.    *)

SVG_WIDTH == 600
SVG_HEIGHT == 600
SCREEN_WIDTH == 400
SCREEN_HEIGHT == 400
SphereLeft == 40
SphereTop == 20
DEFAULT_SPHERE_OFFSET == 30
LAVA_RECT_SURFACE_BUFFER == 80
ForceStep == 50
MaxForceGrid == 9
MaxExponent == 5
MaxPositionGrid == 20
MaxSmoothPoints == 4

\* Math.sqrt of a ratio
SqrtS(r) == ISqrt(r * Scale)
\* Math.pow(r, h / 2) of a ratio r for a count of halves h
PowH(r, h) == IF h % 2 = 1 THEN MulS(PowS(r, h \div 2), SqrtS(r)) ELSE PowS(r, h \div 2)

\* DEFAULT_PHYSICS, but for the two exponents, which the props give
SPHERE_DEFAULT_PHYSICS ==
    [baseRadius |-> Px(150),
     attractionMultiplier |-> 30,
     pointinessFactor |-> Scale \div 2,
     minDistance |-> Px(20),
     surfaceBuffer |-> Px(60),
     stretchFactor |-> (6 * Scale) \div 10,
     pointinessMultiplier |-> (12 * Scale) \div 10,
     smoothingFactor |-> (4 * Scale) \div 10,
     minDampeningFactor |-> (15 * Scale) \div 100,
     perceivedCursorOffset |-> Px(DEFAULT_SPHERE_OFFSET),
     svgSize |-> SVG_WIDTH,
     screenToSvgRatio |-> DivS(SVG_WIDTH, SCREEN_WIDTH),
     maxPointiness |-> (6 * Scale) \div 10,
     closeDampeningThreshold |-> 2,
     tipActivationThreshold |-> (6 * Scale) \div 10,
     maxTipFactor |-> Scale,
     pointyReductionAmount |-> 15]

\* UI_CONSTANTS
SPHERE_UI_CONSTANTS ==
    [farAwayDistance |-> Px(1000),
     durationMultiplier |-> (3 * Scale) \div 10,
     pointinessStrengthFactor |-> (8 * Scale) \div 10,
     minCloseDampeningFactor |-> (2 * Scale) \div 10]

half(n) == DivT(n, 2)

\* svgEl.getBoundingClientRect(): the svg is laid out SCREEN_WIDTH wide and
\* SCREEN_HEIGHT high, its viewBox is SVG_WIDTH by SVG_HEIGHT
SphereRect ==
    [left |-> Px(SphereLeft), top |-> Px(SphereTop),
     width |-> Px(SCREEN_WIDTH), height |-> Px(SCREEN_HEIGHT)]

getSvgGeometry(rect) ==
    [sphereCenterX |-> rect.left + half(rect.width),
     sphereCenterY |-> rect.top + half(rect.height),
     svgCenterX |-> half(Px(SVG_WIDTH)),
     svgCenterY |-> half(Px(SVG_HEIGHT))]

screenToSvg(screenCoord, screenCenter, svgCenter, ratio) ==
    MulS(screenCoord - screenCenter, ratio) + svgCenter

\* mutant: the normalized distance is raised to the power, not its complement
sphereCalculateBaseMagneticForceRising(distance, effectiveDistance, config) ==
    PowH(MinI(DivS(distance, effectiveDistance), Scale), config.forceCurveExponent)

\* mutant: the normalized distance is not capped at 1
sphereCalculateBaseMagneticForceNoCap(distance, effectiveDistance, config) ==
    PowH(Scale - DivS(distance, effectiveDistance), config.forceCurveExponent)

\* distance / effectiveDistance is Infinity for effectiveDistance = 0 and a
\* positive distance, and Math.min(Infinity, 1) is 1
sphereCalculateBaseMagneticForce(distance, effectiveDistance, config) ==
    LET normalizedDistance ==
            IF effectiveDistance > 0 THEN DivS(distance, effectiveDistance) ELSE Scale
    IN  PowH(Scale - MinI(normalizedDistance, Scale), config.forceCurveExponent)

sphereCalculateGlobalDampening(distance, config) ==
    LET sphereRadius == DivT(config.baseRadius * SCREEN_WIDTH, config.svgSize)
        distanceFromSurface == MaxI(distance - sphereRadius, 0)
        dampeningFactor ==
            MaxI(DivS(distanceFromSurface, config.surfaceBuffer), config.minDampeningFactor)
    IN  IF distance < sphereRadius + config.surfaceBuffer
        THEN PowH(dampeningFactor, config.dampeningPower)
        ELSE Scale

sphereCalculateCloseDampening(rawDistance, config) ==
    LET limit == config.minDistance * config.closeDampeningThreshold
    IN  IF rawDistance < limit
        THEN MaxI(DivS(rawDistance, limit), SPHERE_UI_CONSTANTS.minCloseDampeningFactor)
        ELSE Scale

\* strength is the plain number of the prop; the result is a ratio
sphereCalculatePointiness(magneticForce, strength, rawDistance, config) ==
    IF magneticForce > config.tipActivationThreshold /\ rawDistance > config.minDistance
    THEN LET tipFactor ==
                 MinI(DivS(magneticForce - config.tipActivationThreshold,
                           Scale - config.tipActivationThreshold),
                      config.maxTipFactor)
             pointiness ==
                 MinI(MulS(magneticForce * strength,
                           SPHERE_UI_CONSTANTS.pointinessStrengthFactor),
                      config.maxPointiness)
         IN  MulS(MulS(pointiness, tipFactor), config.pointinessFactor)
    ELSE 0

calcPerceived(actualMouseX, actualMouseY, sphereCenterX, sphereCenterY, offset) ==
    LET directionX == actualMouseX - sphereCenterX
        directionY == actualMouseY - sphereCenterY
        distance == calculateDistance(actualMouseX, actualMouseY, sphereCenterX, sphereCenterY)
        normalized == normalizeVector(directionX, directionY)
        perceivedDistance == distance + offset
    IN  IF distance = 0 THEN [x |-> sphereCenterX + offset, y |-> sphereCenterY]
        ELSE [x |-> sphereCenterX + MulS(perceivedDistance, normalized.x),
              y |-> sphereCenterY + MulS(perceivedDistance, normalized.y)]

\* Math.cos and Math.sin of (i / numPoints) * TAU, for the point counts that
\* divide a turn into eighths
SphereNumPoints == {4, 8}
CosEighths ==
    <<Scale, (707 * Scale) \div 1000, 0, -((707 * Scale) \div 1000),
      -Scale, -((707 * Scale) \div 1000), 0, (707 * Scale) \div 1000>>
CosOf(i, numPoints) == CosEighths[(((i * 8) \div numPoints) % 8) + 1]
SinOf(i, numPoints) == CosEighths[(((i * 8) \div numPoints + 6) % 8) + 1]

\* where point i rests, in the coordinates of the viewBox
SphereBasePoint(i, numPoints, centers, physics) ==
    [x |-> centers.svgCenterX + MulS(physics.baseRadius, CosOf(i, numPoints)),
     y |-> centers.svgCenterY + MulS(physics.baseRadius, SinOf(i, numPoints))]

\* where point i rests on the screen
SphereScreenPoint(i, numPoints, centers, physics) ==
    [x |-> centers.sphereCenterX
           + DivT(MulS(physics.baseRadius, CosOf(i, numPoints)) * SCREEN_WIDTH, SVG_WIDTH),
     y |-> centers.sphereCenterY
           + DivT(MulS(physics.baseRadius, SinOf(i, numPoints)) * SCREEN_HEIGHT, SVG_HEIGHT)]

\* the body of computePoints' loop, for the point of index i
SpherePoint(i, p, cursorSvgX, cursorSvgY, globalDampening) ==
    LET base == SphereBasePoint(i, p.numPoints, p.centers, p.physics)
        screen == SphereScreenPoint(i, p.numPoints, p.centers, p.physics)
        rawPointDistance == calculateDistance(p.mouseX, p.mouseY, screen.x, screen.y)
        pointDistanceToMouse == MaxI(rawPointDistance, p.physics.minDistance)
        baseMagneticForce ==
            sphereCalculateBaseMagneticForce(pointDistanceToMouse, p.effectiveDistance, p.physics)
        pointMagneticForce == MulS(baseMagneticForce, globalDampening)
        directionToCursor == normalizeVector(cursorSvgX - base.x, cursorSvgY - base.y)
        attractionStrength ==
            MulS(MulS(Px(p.strength * p.physics.attractionMultiplier), pointMagneticForce),
                 sphereCalculateCloseDampening(rawPointDistance, p.physics))
        pointinessAmount ==
            sphereCalculatePointiness(pointMagneticForce, p.strength, rawPointDistance, p.physics)
        reach == MulS(Px(p.physics.pointyReductionAmount), pointinessAmount)
    IN  [x |-> base.x + MulS(attractionStrength, directionToCursor.x)
               + (IF pointinessAmount > 0 THEN MulS(reach, directionToCursor.x) ELSE 0),
         y |-> base.y + MulS(attractionStrength, directionToCursor.y)
               + (IF pointinessAmount > 0 THEN MulS(reach, directionToCursor.y) ELSE 0)]

computePoints(p) ==
    LET cursorSvgX == screenToSvg(p.mouseX, p.centers.sphereCenterX, p.centers.svgCenterX,
                                  p.physics.screenToSvgRatio)
        cursorSvgY == screenToSvg(p.mouseY, p.centers.sphereCenterY, p.centers.svgCenterY,
                                  p.physics.screenToSvgRatio)
        centerDistance == calculateDistance(p.mouseX, p.mouseY, p.centers.sphereCenterX,
                                            p.centers.sphereCenterY)
        globalDampening == sphereCalculateGlobalDampening(centerDistance, p.physics)
    IN  [k \in 1..p.numPoints |-> SpherePoint(k - 1, p, cursorSvgX, cursorSvgY, globalDampening)]

\* mutant: the loop stops before the last point, so no segment returns to the start
buildSmoothPathOpen(points, smoothing) ==
    LET n == Len(points)
        At(j) == points[(j % n) + 1]
        Curve(i) ==
            <<"C",
              At(i).x + MulS(At(i + 1).x - At(i - 1 + n).x, smoothing),
              At(i).y + MulS(At(i + 1).y - At(i - 1 + n).y, smoothing),
              At(i + 1).x - MulS(At(i + 2).x - At(i).x, smoothing),
              At(i + 1).y - MulS(At(i + 2).y - At(i).y, smoothing),
              At(i + 1).x, At(i + 1).y>>
    IN  IF n = 0 THEN << >>
        ELSE [i \in 1..(n + 1) |->
                IF i = 1 THEN <<"M", points[1].x, points[1].y>>
                ELSE IF i <= n THEN Curve(i - 2)
                ELSE <<"Z">>]

\* the path string "M x,y C x,y x,y x,y ... Z", one token per command
buildSmoothPath(points, smoothing) ==
    LET n == Len(points)
        At(j) == points[(j % n) + 1]
        Curve(i) ==
            LET current == At(i)
                next == At(i + 1)
                prev == At(i - 1 + n)
                nextNext == At(i + 2)
            IN  <<"C",
                  current.x + MulS(next.x - prev.x, smoothing),
                  current.y + MulS(next.y - prev.y, smoothing),
                  next.x - MulS(nextNext.x - current.x, smoothing),
                  next.y - MulS(nextNext.y - current.y, smoothing),
                  next.x, next.y>>
    IN  IF n = 0 THEN << >>
        ELSE [i \in 1..(n + 2) |->
                IF i = 1 THEN <<"M", points[1].x, points[1].y>>
                ELSE IF i <= n + 1 THEN Curve(i - 2)
                ELSE <<"Z">>]

getEffectiveDistanceAndActive(fullWindowMode, triggerDistance, centers, actualDistance) ==
    [effectiveDistance |->
        IF fullWindowMode
        THEN MaxI(MaxI(centers.sphereCenterX, Px(ViewportWidth) - centers.sphereCenterX),
                  MaxI(centers.sphereCenterY, Px(ViewportHeight) - centers.sphereCenterY))
        ELSE triggerDistance,
     isActive |-> fullWindowMode \/ actualDistance < triggerDistance]

physicsKeys ==
    {"attractionMultiplier", "pointinessFactor", "minDistance", "surfaceBuffer",
     "stretchFactor", "pointinessMultiplier", "smoothingFactor", "dampeningPower",
     "forceCurveExponent", "minDampeningFactor", "perceivedCursorOffset"}

\* { ...DEFAULT_PHYSICS, ...overrides }, overrides holding the physicsKeys
\* that props gives a value other than undefined
createPhysicsConfig(bprops) ==
    [k \in DOMAIN SPHERE_DEFAULT_PHYSICS \cup {"forceCurveExponent", "dampeningPower"} |->
        IF k \in physicsKeys /\ k \in DOMAIN bprops /\ bprops[k] # Undefined
        THEN bprops[k][1] ELSE SPHERE_DEFAULT_PHYSICS[k]]

\* the options handleActiveState (through computePathAndMetrics) and
\* handleInactiveState hand to genPath
SphereGenOptions(bprops, centers, perceived, active) ==
    [mouseX |-> IF active.isActive THEN perceived.x
                ELSE centers.sphereCenterX + SPHERE_UI_CONSTANTS.farAwayDistance,
     mouseY |-> IF active.isActive THEN perceived.y
                ELSE centers.sphereCenterY + SPHERE_UI_CONSTANTS.farAwayDistance,
     centers |-> centers,
     strength |-> IF active.isActive THEN bprops.strength ELSE 0,
     effectiveDistance |-> active.effectiveDistance,
     numPoints |-> bprops.numPoints,
     physics |-> createPhysicsConfig(bprops)]

\* the callback makeCalculateEffect returns, run on a pointer position: what
\* it decides, the points it computes and the path it hands to animatePath
makeCalculateEffect(bprops, mouseX, mouseY) ==
    LET centers == getSvgGeometry(SphereRect)
        physicsConfig == createPhysicsConfig(bprops)
        actualDistance == calculateDistance(mouseX, mouseY, centers.sphereCenterX,
                                            centers.sphereCenterY)
        perceived == calcPerceived(mouseX, mouseY, centers.sphereCenterX,
                                   centers.sphereCenterY, physicsConfig.perceivedCursorOffset)
        active == getEffectiveDistanceAndActive(bprops.fullWindow, bprops.distance, centers,
                                                actualDistance)
        options == SphereGenOptions(bprops, centers, perceived, active)
        points == computePoints(options)
    IN  [isActive |-> active.isActive,
         options |-> options,
         points |-> points,
         path |-> buildSmoothPath(points, physicsConfig.smoothingFactor)]

-----------------------------------------------------------------------------
(* MagneticLavaRectangle as one component (src/unnamed/part_007): its force *)
(* model.  magneticDistribution is a count of halves, as the exponents are. *)

\* 1 / magneticDistribution, as a count of halves
InverseHalves(h) == 4 \div h

lavaRectCalculateBaseMagneticForce(distance, effectiveDistance, config) ==
    LET normalizedDistance ==
            IF effectiveDistance > 0 THEN DivS(distance, effectiveDistance) ELSE Scale
        baseForce == PowH(Scale - MinI(normalizedDistance, Scale), config.forceCurveExponent)
    IN  IF config.magneticDistribution # 2
        THEN PowH(baseForce, InverseHalves(config.magneticDistribution))
        ELSE baseForce

lavaRectCalculateGlobalDampening(distance, config) ==
    LET dampeningFactor ==
            MaxI(DivS(distance, config.surfaceBuffer), config.minDampeningFactor)
    IN  IF distance < config.surfaceBuffer
        THEN PowH(dampeningFactor, config.dampeningPower)
        ELSE Scale

-----------------------------------------------------------------------------
(* The three specifications: each moves one part and lets the others rest *)

NoResult == << >>

RectSolverIdle ==
    /\ sCfg = RectConfig
    /\ sIn = NoReq
    /\ sPts = << >>
    /\ sPath = << >>
    /\ sPrev = << >>

SphereIdle ==
    /\ bIn = NoReq
    /\ bOut = NoResult

PhysicsIdle ==
    /\ fIn = NoReq
    /\ fOut = NoResult

SolverIdle ==
    /\ RectSolverIdle
    /\ SphereIdle
    /\ PhysicsIdle

RectIdle == InitRectWith([fullWindow |-> FALSE, fillThrows |-> FALSE])

HookIdle == InitHookWith([fullWindow |-> FALSE, equation |-> "original"])

\* the rectangle component
Init ==
    /\ \E p \in [fullWindow : BOOLEAN, fillThrows : BOOLEAN] : InitRectWith(p)
    /\ SolverIdle
    /\ HookIdle

Spec == Init /\ [][Next]_vars

\* the hook
InitHook ==
    /\ \E config \in HookConfigs : InitHookWith(config)
    /\ SolverIdle
    /\ RectIdle

SpecHook == InitHook /\ [][NextHook]_vars

-----------------------------------------------------------------------------
(* The path generators applied to drawn inputs: the rectangle's             *)
(* generateLavaPath, called and called again as the pointer moves along a   *)
(* row, and the sphere's effect callback                                    *)

\* the props a sphere instance is given
SphereProps ==
    [strength : {0, Strength}, distance : {Px(Distance)}, fullWindow : BOOLEAN,
     numPoints : SphereNumPoints, forceCurveExponent : {<<4>>, <<5>>},
     dampeningPower : {<<1>>, <<2>>},
     perceivedCursorOffset : {<<0>>, <<Px(DEFAULT_SPHERE_OFFSET)>>},
     surfaceBuffer : {Undefined}]

SphereInputs ==
    {[props |-> bp, mouseX |-> mx, mouseY |-> my] :
        bp \in SphereProps, mx \in MouseGrid, my \in MouseGrid}

InitSolver ==
    /\ \/ /\ sCfg \in SolverConfigs
          /\ sIn \in SolverParams
          /\ sPts = << >>
          /\ sPath = << >>
          /\ sPrev = << >>
          /\ SphereIdle
       \/ /\ RectSolverIdle
          /\ bIn \in SphereInputs
          /\ bOut = NoResult
    /\ PhysicsIdle
    /\ RectIdle
    /\ HookIdle

GeneratePath ==
    /\ sIn # NoReq
    /\ sPts = << >>
    /\ sPts' = LavaPoints(sCfg, sIn)
    /\ sPath' = generateLavaPath(sCfg, sIn)
    /\ UNCHANGED <<sCfg, sIn, sPrev, bIn, bOut, fIn, fOut>>
    /\ UNCHANGED <<rectVars, hookVars>>

\* the parameters of the next call: the pointer has moved one step along its row
MovedParams(params) ==
    [params EXCEPT !.mouseX = IF @ + Px(GridStep) \in MouseGrid THEN @ + Px(GridStep) ELSE 0]

\* the callback is called again, on the same configuration
Regenerate ==
    /\ sPts # << >>
    /\ sPrev = << >>
    /\ sPrev' = sPts
    /\ sIn' = MovedParams(sIn)
    /\ sPts' = LavaPoints(sCfg, MovedParams(sIn))
    /\ sPath' = generateLavaPath(sCfg, MovedParams(sIn))
    /\ UNCHANGED <<sCfg, bIn, bOut, fIn, fOut>>
    /\ UNCHANGED <<rectVars, hookVars>>

\* onMove of the sphere: calculateMagneticEffect(e.clientX, e.clientY)
SphereMove ==
    /\ bIn # NoReq
    /\ bOut = NoResult
    /\ bOut' = <<makeCalculateEffect(bIn.props, bIn.mouseX, bIn.mouseY)>>
    /\ UNCHANGED <<sCfg, sIn, sPts, sPath, sPrev, bIn, fIn, fOut>>
    /\ UNCHANGED <<rectVars, hookVars>>

NextSolver ==
    \/ GeneratePath
    \/ Regenerate
    \/ SphereMove

SpecSolver == InitSolver /\ [][NextSolver]_vars

-----------------------------------------------------------------------------
(* The force model and the attractor transform applied to drawn arguments *)

EffectiveDistances == {Px(Distance), Px(EffDistance)}
\* a grid of distances, and the effective distances themselves
ForceDistances == {Px(i * ForceStep) : i \in 0..MaxForceGrid} \cup EffectiveDistances
\* exponents, as counts of halves: 0.5, 1, ... MaxExponent / 2
Exponents == 1..MaxExponent
\* magneticDistribution, as a count of halves: 0.5, 1, 2
Distributions == {1, 2, 4}
MinDampeningFactors == {Scale \div 10, (15 * Scale) \div 100}
TransformCenters == {<<Px(RectLeft + RectWidth \div 2), Px(RectTop + RectHeight \div 2)>>,
                     <<Px(GridStep), Px(GridStep)>>}
TransformOffsets == {0, Px(DEFAULT_PERCEIVED_OFFSET), Px(DEFAULT_SPHERE_OFFSET)}

\* sidePosition along an edge: a grid, and the two ends of the blend zone
SidePositions ==
    {(i * Scale) \div MaxPositionGrid : i \in 0..MaxPositionGrid}
    \cup {CORNER_BLEND_FACTOR, Scale - CORNER_BLEND_FACTOR}
CornerFactors == {0, DEFAULT_CORNER_DEFLECTION, Scale \div 2, Scale}
\* transformPoint passes isCorner = (sidePosition is 0 or 1); the function
\* itself also accepts an end of a side with the flag down
CornerDampeningInputs ==
    {in \in [fn : {"cornerDampening"}, strength : {Scale, Px(Strength)}, isCorner : BOOLEAN,
             sidePosition : SidePositions, factor : CornerFactors] :
        in.isCorner => in.sidePosition \in {0, Scale}}

\* point lists of 1..MaxSmoothPoints points, repeated points included
SmoothCoordinates == {0, Px(GridStep)}
SmoothPoints == [x : SmoothCoordinates, y : SmoothCoordinates]
SmoothPathInputs ==
    {[fn |-> "smoothPath", points |-> pts, smoothing |-> SPHERE_DEFAULT_PHYSICS.smoothingFactor] :
        pts \in UNION {[1..n -> SmoothPoints] : n \in 1..MaxSmoothPoints}}

ForceInputs ==
    {[fn |-> "rectForce", distance |-> d, effectiveDistance |-> e] :
        d \in ForceDistances, e \in EffectiveDistances}
    \cup {[fn |-> "sphereForce", distance |-> d, effectiveDistance |-> e,
           forceCurveExponent |-> k] :
        d \in ForceDistances, e \in EffectiveDistances, k \in Exponents}
    \cup {[fn |-> "lavaRectForce", distance |-> d, effectiveDistance |-> e,
           forceCurveExponent |-> k, magneticDistribution |-> m] :
        d \in ForceDistances, e \in EffectiveDistances, k \in Exponents, m \in Distributions}

DampeningInputs ==
    {[fn |-> f, distance |-> d, dampeningPower |-> k, minDampeningFactor |-> m] :
        f \in {"sphereDampening", "lavaRectDampening"}, d \in ForceDistances,
        k \in Exponents, m \in MinDampeningFactors}

TransformInputs ==
    {[fn |-> f, mouseX |-> mx, mouseY |-> my, centerX |-> c[1], centerY |-> c[2],
      offset |-> o] :
        f \in {"rectPerceived", "spherePerceived"}, mx \in MouseGrid, my \in MouseGrid,
        c \in TransformCenters, o \in TransformOffsets}

\* the configuration a dampening is computed with
SphereDampeningConfig(in) ==
    [SPHERE_DEFAULT_PHYSICS EXCEPT !.minDampeningFactor = in.minDampeningFactor]
    @@ [dampeningPower |-> in.dampeningPower]
LavaRectDampeningConfig(in) ==
    [surfaceBuffer |-> Px(LAVA_RECT_SURFACE_BUFFER),
     minDampeningFactor |-> in.minDampeningFactor,
     dampeningPower |-> in.dampeningPower]

\* what each function returns on the arguments in
ApplyFn(in) ==
    CASE in.fn = "rectForce" ->
            calculateBaseMagneticForce(in.distance, in.effectiveDistance)
      [] in.fn = "sphereForce" ->
            sphereCalculateBaseMagneticForce(in.distance, in.effectiveDistance, in)
      [] in.fn = "lavaRectForce" ->
            lavaRectCalculateBaseMagneticForce(in.distance, in.effectiveDistance, in)
      [] in.fn = "sphereDampening" ->
            sphereCalculateGlobalDampening(in.distance, SphereDampeningConfig(in))
      [] in.fn = "lavaRectDampening" ->
            lavaRectCalculateGlobalDampening(in.distance, LavaRectDampeningConfig(in))
      [] in.fn = "rectPerceived" ->
            calculatePerceivedCursor(in.mouseX, in.mouseY, in.centerX, in.centerY, in.offset)
      [] in.fn = "spherePerceived" ->
            calcPerceived(in.mouseX, in.mouseY, in.centerX, in.centerY, in.offset)
      [] in.fn = "smoothPath" ->
            buildSmoothPath(in.points, in.smoothing)
      [] in.fn = "cornerDampening" ->
            applyCornerDampening(in.strength, in.isCorner,
                                 [sidePosition |-> in.sidePosition], in.factor)

InitPhysics ==
    /\ fIn \in ForceInputs \cup DampeningInputs \cup TransformInputs
                \cup CornerDampeningInputs \cup SmoothPathInputs
    /\ fOut = NoResult
    /\ RectSolverIdle
    /\ SphereIdle
    /\ RectIdle
    /\ HookIdle

ForceFns == {"rectForce", "sphereForce", "lavaRectForce"}
DampeningFns == {"sphereDampening", "lavaRectDampening"}
TransformFns == {"rectPerceived", "spherePerceived"}

\* PhysicsUtils.calculateBaseMagneticForce is called
ApplyForce ==
    /\ fIn # NoReq
    /\ fIn.fn \in ForceFns
    /\ fOut = NoResult
    /\ fOut' = <<ApplyFn(fIn)>>
    /\ UNCHANGED <<sCfg, sIn, sPts, sPath, sPrev, bIn, bOut, fIn>>
    /\ UNCHANGED <<rectVars, hookVars>>

\* PhysicsUtils.calculateGlobalDampening is called
ApplyDampening ==
    /\ fIn # NoReq
    /\ fIn.fn \in DampeningFns
    /\ fOut = NoResult
    /\ fOut' = <<ApplyFn(fIn)>>
    /\ UNCHANGED <<sCfg, sIn, sPts, sPath, sPrev, bIn, bOut, fIn>>
    /\ UNCHANGED <<rectVars, hookVars>>

\* calculatePerceivedCursor or calcPerceived is called
ApplyTransform ==
    /\ fIn # NoReq
    /\ fIn.fn \in TransformFns
    /\ fOut = NoResult
    /\ fOut' = <<ApplyFn(fIn)>>
    /\ UNCHANGED <<sCfg, sIn, sPts, sPath, sPrev, bIn, bOut, fIn>>
    /\ UNCHANGED <<rectVars, hookVars>>

\* applyCornerDampening is called
ApplyCornerDampening ==
    /\ fIn # NoReq
    /\ fIn.fn = "cornerDampening"
    /\ fOut = NoResult
    /\ fOut' = <<ApplyFn(fIn)>>
    /\ UNCHANGED <<sCfg, sIn, sPts, sPath, sPrev, bIn, bOut, fIn>>
    /\ UNCHANGED <<rectVars, hookVars>>

\* buildSmoothPath is called
ApplySmoothPath ==
    /\ fIn # NoReq
    /\ fIn.fn = "smoothPath"
    /\ fOut = NoResult
    /\ fOut' = <<ApplyFn(fIn)>>
    /\ UNCHANGED <<sCfg, sIn, sPts, sPath, sPrev, bIn, bOut, fIn>>
    /\ UNCHANGED <<rectVars, hookVars>>

NextPhysics ==
    \/ ApplyForce
    \/ ApplyDampening
    \/ ApplyTransform
    \/ ApplyCornerDampening
    \/ ApplySmoothPath

SpecPhysics == InitPhysics /\ [][NextPhysics]_vars

-----------------------------------------------------------------------------
(* Properties of the displacement solver, checked under SpecSolver *)

Generated == sPts # << >>
SeqRange(seq) == {seq[i] : i \in 1..Len(seq)}
GeneratedPoints == SeqRange(sPts)
\* a corner, told by where the point rests
AtCorner(p) == p.baseX \in {0, sCfg.width} /\ p.baseY \in {0, sCfg.height}
\* the two edges that meet at the place a corner rests
EdgesMeetingAt(p) ==
    {IF p.baseY = 0 THEN "top" ELSE "bottom", IF p.baseX = 0 THEN "left" ELSE "right"}
AtBase(p) == p.x = p.baseX /\ p.y = p.baseY
\* where the attraction alone would put a generated point
Attracted(p) == computeAttraction(p, IsCornerPoint(p), TransformContext(sCfg, sIn))
Pulled(p) == Attracted(p).x # p.baseX \/ Attracted(p).y # p.baseY

\* C3: a corner is emitted at its base position unless both edges that meet
\* at it are in activeSides.
C3_CornerLocked ==
    \A p \in GeneratedPoints :
        (AtCorner(p) /\ ~(EdgesMeetingAt(p) \subseteq SeqRange(sCfg.activeSides))) => AtBase(p)

\* a corner with exactly one active edge, which the attraction would have moved
C3_Witness ==
    /\ Generated
    /\ \E p \in GeneratedPoints :
          /\ AtCorner(p)
          /\ Cardinality(EdgesMeetingAt(p) \cap SeqRange(sCfg.activeSides)) = 1
          /\ Pulled(p)
          /\ AtBase(p)

\* C4: a displaced interior point of an active edge stays on the outward
\* side of its base coordinate.
C4_SideOutward ==
    \A p \in GeneratedPoints :
        ~AtCorner(p) =>
            /\ p.side = "top" => p.y <= p.baseY
            /\ p.side = "right" => p.x >= p.baseX
            /\ p.side = "bottom" => p.y >= p.baseY
            /\ p.side = "left" => p.x <= p.baseX

\* an interior point the attraction pulled inward, emitted clamped and
\* displaced along its edge
C4_Witness ==
    /\ Generated
    /\ \E p \in GeneratedPoints :
          /\ ~AtCorner(p)
          /\ p.side = "top"
          /\ Attracted(p).y > p.baseY
          /\ p.y = p.baseY
          /\ p.x # p.baseX

\* C5: with all four edges active every corner stays on the outward side of
\* its base on both axes, judged against the center (width/2, height/2).
C5_CornersOutward ==
    (Generated /\ SeqRange(sCfg.activeSides) = Sides) =>
        \A p \in GeneratedPoints :
            AtCorner(p) =>
                /\ IF 2 * p.baseX < sCfg.width THEN p.x <= p.baseX ELSE p.x >= p.baseX
                /\ IF 2 * p.baseY < sCfg.height THEN p.y <= p.baseY ELSE p.y >= p.baseY

\* the resting 4-corner path
RestingCornerPath ==
    << <<"M", 0, 0>>, <<"L", sCfg.width, 0>>, <<"L", sCfg.width, sCfg.height>>,
       <<"L", 0, sCfg.height>>, <<"Z">> >>

\* C6: with an empty activeSides the emitted path is the resting 4-corner
\* path, top-left, top-right, bottom-right, bottom-left, closed.
C6_EmptyActiveSidesRest ==
    (Generated /\ sCfg.activeSides = << >>) => sPath = RestingCornerPath

\* no active side, and an attractor that pulls on a corner
C6_Witness ==
    /\ Generated
    /\ sCfg.activeSides = << >>
    /\ sIn.strength > 0
    /\ \E p \in GeneratedPoints : Pulled(p)
    /\ sPath = RestingCornerPath

\* the points generateLavaPath starts from
GeneratedBase ==
    generateRectanglePoints([width |-> sCfg.width, height |-> sCfg.height],
                            sCfg.activeSides, sCfg.pointsPerSide)
\* the resting path of the rectangle: the generated points, ordered and joined
SolverRestingPath == buildPathFromPoints(SortPoints(GeneratedBase))
\* no generated point is closer than effectiveDistance to the perceived attractor
RectOutOfRange ==
    LET ctx == TransformContext(sCfg, sIn)
    IN  \A p \in SeqRange(GeneratedBase) :
            calculateDistance(ctx.perceivedCursor.x, ctx.perceivedCursor.y,
                              ctx.centerX + (p.baseX - ctx.svgCenterX),
                              ctx.centerY + (p.baseY - ctx.svgCenterY)) >= sIn.effectiveDistance

SphereDrawn == bOut # NoResult
\* where the points of the sphere rest
SphereRestingPoints ==
    LET o == bOut[1].options
    IN  [k \in 1..o.numPoints |-> SphereBasePoint(k - 1, o.numPoints, o.centers, o.physics)]
\* no point of the sphere is closer than effectiveDistance to the attractor
\* the generator was given
SphereOutOfRange ==
    LET o == bOut[1].options
    IN  \A k \in 1..o.numPoints :
            LET screen == SphereScreenPoint(k - 1, o.numPoints, o.centers, o.physics)
            IN  calculateDistance(o.mouseX, o.mouseY, screen.x, screen.y) >= o.effectiveDistance

\* C12: with the attractor out of range, or with strength 0, the generated
\* points go through the solver and the path builder unmoved: the path is the
\* resting path, for the rectangle with any active sides and for the sphere.
C12_RoundTripRests ==
    /\ (Generated /\ (sIn.strength = 0 \/ RectOutOfRange)) =>
            /\ \A p \in GeneratedPoints : AtBase(p)
            /\ sPath = SolverRestingPath
    /\ (SphereDrawn /\ (bIn.props.strength = 0 \/ ~bOut[1].isActive \/ SphereOutOfRange)) =>
            /\ bOut[1].points = SphereRestingPoints
            /\ bOut[1].path = buildSmoothPath(SphereRestingPoints,
                                              bOut[1].options.physics.smoothingFactor)

\* a sphere of some strength in full-window mode, drawn at rest since the
\* attractor is out of range of each of its points
C12_Witness ==
    /\ SphereDrawn
    /\ bIn.props.strength > 0
    /\ bOut[1].isActive
    /\ SphereOutOfRange
    /\ bOut[1].points = SphereRestingPoints
    /\ Len(bOut[1].path) = bIn.props.numPoints + 2

\* a point the solver is not to move: an interior point of an inactive edge,
\* or a corner with an inactive adjacent edge
Inactive(p) ==
    IF AtCorner(p) THEN ~(EdgesMeetingAt(p) \subseteq SeqRange(sCfg.activeSides))
    ELSE p.side \notin SeqRange(sCfg.activeSides)

\* C13: the solver neither drops nor adds points: the emitted path has one
\* vertex per generated point, at the emitted point's (x, y), and a point whose
\* edge, or for a corner either adjacent edge, is inactive is emitted at its base.
C13_OneVertexPerPoint ==
    Generated =>
        /\ Len(sPts) = Len(GeneratedBase)
        /\ Len(PathVertices(sPath)) = Len(GeneratedBase)
        /\ \A i \in 1..Len(sPts) :
              /\ sPath[i][2] = sPts[i].x /\ sPath[i][3] = sPts[i].y
              /\ Inactive(sPts[i]) => AtBase(sPts[i])
        /\ \A g \in SeqRange(GeneratedBase) :
              \E p \in GeneratedPoints : p.baseX = g.baseX /\ p.baseY = g.baseY /\ p.side = g.side

\* some points displaced, an inactive corner the attraction would have moved
\* emitted at its base, and as many vertices as generated points
C13_Witness ==
    /\ Generated
    /\ Len(PathVertices(sPath)) = Len(GeneratedBase)
    /\ Len(GeneratedBase) > 4
    /\ \E p \in GeneratedPoints : ~AtBase(p)
    /\ \E p \in GeneratedPoints : Inactive(p) /\ Pulled(p) /\ AtBase(p)

\* the four geometric corners are among the generated points
CornersGenerated ==
    \A c \in {<<0, 0>>, <<sCfg.width, 0>>, <<sCfg.width, sCfg.height>>, <<0, sCfg.height>>} :
        \E g \in SeqRange(GeneratedBase) :
            g.x = c[1] /\ g.y = c[2] /\ g.baseX = c[1] /\ g.baseY = c[2]

\* C14 as stated: the number of generated points is
\* 4 + (number of active edges) x (pointsPerSide - 2) for every pointsPerSide,
\* the four corners among them.
C14_PointCountAnyPointsPerSide ==
    Generated =>
        /\ Len(GeneratedBase) = 4 + Len(sCfg.activeSides) * (sCfg.pointsPerSide - 2)
        /\ CornersGenerated

\* C14, amended: the number of generated points is
\* 4 + (number of active edges) x (pointsPerSide - 2) when pointsPerSide >= 2
\* and 4 when pointsPerSide < 2, the four corners always among them.
C14_PointCount ==
    Generated =>
        /\ Len(GeneratedBase) = 4 + Len(sCfg.activeSides) * MaxI(sCfg.pointsPerSide - 2, 0)
        /\ Len(sPts) = Len(GeneratedBase)
        /\ CornersGenerated

\* two active edges with one interior point each: six points
C14_Witness ==
    /\ Generated
    /\ sCfg.pointsPerSide = 3
    /\ Len(sCfg.activeSides) = 2
    /\ Len(GeneratedBase) = 6
    /\ CornersGenerated

\* what a point carries besides its current position
RestingData(p) ==
    [baseX |-> p.baseX, baseY |-> p.baseY, side |-> p.side, sidePosition |-> p.sidePosition]
RestingDataOf(points) == [i \in 1..Len(points) |-> RestingData(points[i])]
Regenerated == sPrev # << >>

\* C15: the solver leaves a point's resting data alone: each emitted point
\* has the baseX, baseY, side and sidePosition it was generated with, and the
\* points of the next recomputation on the same dimensions, active sides and
\* pointsPerSide rest where the points of this one rested.
C15_RestingDataKept ==
    /\ Generated => RestingDataOf(sPts) = RestingDataOf(SortPoints(GeneratedBase))
    /\ Regenerated => RestingDataOf(sPts) = RestingDataOf(sPrev)

\* two recomputations in a row, each displacing some point, differently
C15_Witness ==
    /\ Regenerated
    /\ \E i \in 1..Len(sPts) :
          /\ ~AtBase(sPts[i])
          /\ ~AtBase(sPrev[i])
          /\ <<sPts[i].x, sPts[i].y>> # <<sPrev[i].x, sPrev[i].y>>
    /\ RestingDataOf(sPts) = RestingDataOf(sPrev)

\* the sign of the dot product of a point's surface normal and the direction
\* from its base to the perceived attractor (both in the coordinates of the svg)
SurfaceDot(p) ==
    LET ctx == TransformContext(sCfg, sIn)
        normal == calculateSurfaceNormal(p, IsCornerPoint(p))
        cursorX == ctx.perceivedCursor.x - ctx.centerX + ctx.svgCenterX
        cursorY == ctx.perceivedCursor.y - ctx.centerY + ctx.svgCenterY
    IN  normal.x * (cursorX - p.baseX) + normal.y * (cursorY - p.baseY)

\* C23: in surface-normal mode a point whose surface normal has a dot product
\* <= 0 with the direction to the perceived attractor is emitted at its base
\* position, whatever the strength and the stretchiness.
C23_NoForceBehindNormal ==
    (Generated /\ sCfg.deformationMode = "surface-normal") =>
        \A p \in GeneratedPoints : SurfaceDot(p) <= 0 => AtBase(p)

\* the distance from a generated point to the perceived attractor, as the
\* solver measures it: on screen, and no less than minDistance
RectPointDistance(p) ==
    LET ctx == TransformContext(sCfg, sIn)
    IN  MaxI(calculateDistance(ctx.perceivedCursor.x, ctx.perceivedCursor.y,
                               ctx.centerX + (p.baseX - ctx.svgCenterX),
                               ctx.centerY + (p.baseY - ctx.svgCenterY)),
             ctx.physicsConfig.minDistance)
SpherePointDistance(k) ==
    LET o == bOut[1].options
        screen == SphereScreenPoint(k - 1, o.numPoints, o.centers, o.physics)
    IN  MaxI(calculateDistance(o.mouseX, o.mouseY, screen.x, screen.y), o.physics.minDistance)

\* C24: a boundary point at least effectiveDistance away from the perceived
\* attractor (the distance clamped up to minDistance) is emitted at its base
\* position, in the rectangle and in the sphere, for every strength.
C24_FarPointsRest ==
    /\ Generated =>
          \A p \in GeneratedPoints :
              RectPointDistance(p) >= sIn.effectiveDistance => AtBase(p)
    /\ SphereDrawn =>
          \A k \in 1..bOut[1].options.numPoints :
              SpherePointDistance(k) >= bOut[1].options.effectiveDistance =>
                  bOut[1].points[k] = SphereRestingPoints[k]

\* a sphere with a point pulled off its base and another point, out of
\* range, at rest
C24_Witness ==
    /\ SphereDrawn
    /\ bOut[1].isActive
    /\ \E k \in 1..bOut[1].options.numPoints :
          /\ SpherePointDistance(k) < bOut[1].options.effectiveDistance
          /\ bOut[1].points[k] # SphereRestingPoints[k]
    /\ \E k \in 1..bOut[1].options.numPoints :
          /\ SpherePointDistance(k) >= bOut[1].options.effectiveDistance
          /\ bOut[1].points[k] = SphereRestingPoints[k]

\* how far along the outline, clockwise from the top-left corner, a point rests
PerimeterPosition(p) ==
    IF p.baseY = 0 THEN p.baseX
    ELSE IF p.baseX = sCfg.width THEN sCfg.width + p.baseY
    ELSE IF p.baseY = sCfg.height THEN sCfg.width + sCfg.height + (sCfg.width - p.baseX)
    ELSE 2 * sCfg.width + sCfg.height + (sCfg.height - p.baseY)
SortKeys(points) == [i \in 1..Len(points) |-> <<points[i].side, points[i].sidePosition>>]

\* C25: the path visits the displaced points clockwise from the top-left
\* corner (top left to right, right top to bottom, bottom right to left, left
\* bottom to top, corners in between), in an order that the attractor does
\* not change, with straight segments, closed.
C25_ClockwisePath ==
    Generated =>
        /\ \A i \in 1..(Len(sPts) - 1) :
              PerimeterPosition(sPts[i]) < PerimeterPosition(sPts[i + 1])
        /\ PerimeterPosition(sPts[1]) = 0
        /\ Len(sPath) = Len(sPts) + 1
        /\ \A i \in 1..Len(sPts) :
              sPath[i] = <<IF i = 1 THEN "M" ELSE "L", sPts[i].x, sPts[i].y>>
        /\ sPath[Len(sPath)] = <<"Z">>
        /\ Regenerated => SortKeys(sPts) = SortKeys(sPrev)

\* all four sides active with two interior points each, some of them
\* displaced, drawn a second time for another attractor
C25_Witness ==
    /\ Regenerated
    /\ Len(sPts) = 12
    /\ \E p \in GeneratedPoints : ~AtBase(p)
    /\ \A i \in 1..(Len(sPts) - 1) :
          PerimeterPosition(sPts[i]) < PerimeterPosition(sPts[i + 1])
    /\ sPath[Len(sPath)] = <<"Z">>

-----------------------------------------------------------------------------
(* Properties of the rectangle component, checked under Spec *)

Recomputed == lastReq # NoReq
\* the targets of the transitions in flight
TargetsInFlight == {tweens[i].d : i \in 1..Len(tweens)}
\* the center of the svg's bounding box when the last recompute ran
BoxCenter ==
    LET rect == SvgRect(lastReq.scrollY)
    IN  [x |-> rect.left + rect.width \div 2, y |-> rect.top + rect.height \div 2]
\* the resting path: the generated points as they are, ordered and joined
RestingPath ==
    buildPathFromPoints(
        SortPoints(generateRectanglePoints([width |-> Px(RectWidth), height |-> Px(RectHeight)],
                                           RectConfig.activeSides, RectConfig.pointsPerSide)))

\* C1: starting a transition cancels the ones in flight, so no two
\* transitions toward different targets are ever active for the path element.
C1_OneTargetInFlight == Cardinality(TargetsInFlight) <= 1

\* C2: the values onCursorInside is called with alternate, starting with
\* true: true, false, true, ...
C2_NotificationsAlternate ==
    \A i \in 1..Len(notified) : notified[i] = (i % 2 = 1)

\* C7: the last recompute took the deformed branch exactly when fullWindow
\* is set or the attractor is closer than `distance` to the center of the
\* bounding box, (left + width/2, top + height/2).
C7_ActiveIffNearBoxCenter ==
    Recomputed =>
        (lastReq.target.isActive <=>
            \/ props.fullWindow
            \/ calculateDistance(lastReq.target.mouseX, lastReq.target.mouseY,
                                 BoxCenter.x, BoxCenter.y) < Px(Distance))

\* C8: a recompute that a scroll caused, after a pointer move, has the
\* coordinates of that move as its attractor.
C8_ScrollUsesLastPointer ==
    (Recomputed /\ lastReq.kind = "scroll" /\ lastPointer # NoPointer) =>
        <<lastReq.target.mouseX, lastReq.target.mouseY>> = lastPointer

\* C10: a mounted instance that has recomputed nothing yet shows the resting
\* path of the generated points, set without a transition; it is not inside
\* and has notified nothing.
C10_MountsResting ==
    (mounted /\ ~Recomputed) =>
        /\ pathAttr = RestingPath
        /\ currentPath = RestingPath
        /\ tweens = << >>
        /\ ~isInside
        /\ notified = << >>

\* just mounted: the path element holds the corners and the interior points
\* of the active sides, at rest
C10_Witness ==
    /\ mounted
    /\ ~Recomputed
    /\ pathAttr = RestingPath
    /\ Len(pathAttr) = 4 + 2 * (MaxPointsPerSide - 2) + 1
    /\ tweens = << >>

\* C11: the effectiveDistance of a recompute is, in full-window mode, the
\* distance from the center of the bounding box (left + width/2,
\* top + height/2) to the farthest edge of the viewport, and the configured
\* distance otherwise.
C11_EffectiveDistanceFromBoxCenter ==
    Recomputed =>
        lastReq.target.effectiveDistance =
            IF props.fullWindow
            THEN MaxI(MaxI(BoxCenter.x, Px(ViewportWidth) - BoxCenter.x),
                      MaxI(BoxCenter.y, Px(ViewportHeight) - BoxCenter.y))
            ELSE Px(Distance)

\* the query point of the last recompute, in the coordinates of the svg
QueryPoint ==
    [x |-> lastReq.target.mouseX - SvgRect(lastReq.scrollY).left,
     y |-> lastReq.target.mouseY - SvgRect(lastReq.scrollY).top]
InNominalBox(q) == q.x >= 0 /\ q.x <= Px(RectWidth) /\ q.y >= 0 /\ q.y <= Px(RectHeight)

\* C21: a membership query answers true or false and never raises: false
\* when no path has been emitted yet, and, when the fill test throws, the
\* bounding-box test of the query point against [0, width] x [0, height].
C21_MembershipNeverRaises ==
    Recomputed =>
        /\ lastReq.inside \in BOOLEAN
        /\ ~lastReq.emitted => ~lastReq.inside
        /\ (lastReq.emitted /\ props.fillThrows) => (lastReq.inside <=> InNominalBox(QueryPoint))

\* the fill test threw on a pointer inside the nominal box, and the query
\* answered true
C21_Witness ==
    /\ Recomputed
    /\ props.fillThrows
    /\ lastReq.emitted
    /\ InNominalBox(QueryPoint)
    /\ lastReq.inside

\* the attractor of the last recompute lies on an edge of the nominal box
OnNominalBoxEdge(q) ==
    InNominalBox(q) /\ (q.x \in {0, Px(RectWidth)} \/ q.y \in {0, Px(RectHeight)})

\* C28: a recompute whose attractor is inside or on the nominal bounding box
\* has strength 0 and requests the resting path, in full-window mode too.
C28_InsideBoxRests ==
    (Recomputed /\ InNominalBox(QueryPoint)) =>
        /\ lastReq.target.strength = 0
        /\ lastReq.target.path = RestingPath
        /\ currentPath = RestingPath

\* a full-window recompute with the attractor strictly inside the box
C28_Witness ==
    /\ Recomputed
    /\ props.fullWindow
    /\ InNominalBox(QueryPoint)
    /\ ~OnNominalBoxEdge(QueryPoint)
    /\ lastReq.target.path = RestingPath

\* a recompute with the attractor on an edge of the box
C28_OnEdge == Recomputed /\ OnNominalBoxEdge(QueryPoint) /\ lastReq.target.strength = 0

-----------------------------------------------------------------------------
(* Properties of the useMagnetic hook, checked under SpecHook *)

\* C9: a recompute that a scroll caused has the coordinates of the most
\* recent mousemove as its arguments, whatever re-renders came between.
C9_ScrollUsesLastMouseMove ==
    (hLastCall.kind = "scroll" /\ hPointer # NoPointer) =>
        <<hLastCall.mouseX, hLastCall.mouseY>> = hPointer

\* a field the caller left unspecified: absent, or present and undefined
\* (of the fields of a hook config the hosts give ease alone as undefined)
HookUnspecified(k) == k \notin DOMAIN hGiven \/ (k = "ease" /\ hGiven[k] = Undefined)
SphereUnspecified(k) == k \notin DOMAIN bIn.props \/ bIn.props[k] = Undefined
\* the physics settings the sphere documents a default for and the model holds
SphereDefaulted == physicsKeys \cap DOMAIN SPHERE_DEFAULT_PHYSICS

\* C22: in the merged configuration a recomputation uses, every field the
\* caller left unspecified (absent, or undefined) has its default and every
\* field the caller specified has the caller's value, for useMagnetic and for
\* the sphere's physics settings.
C22_PartialOverridesMerged ==
    /\ hLastCall # NoCall =>
          \A k \in DOMAIN defaultConfig :
              hCfg[k] = IF HookUnspecified(k) THEN defaultConfig[k] ELSE hGiven[k]
    /\ SphereDrawn =>
          \A k \in physicsKeys :
              IF SphereUnspecified(k)
              THEN k \in SphereDefaulted =>
                      bOut[1].options.physics[k] = SPHERE_DEFAULT_PHYSICS[k]
              ELSE bOut[1].options.physics[k] = bIn.props[k][1]

\* the distance of the last call's pointer from the center of the element's
\* bounding box, (left + width/2, top + height/2)
HookCenterDistance ==
    calculateDistance(hLastCall.mouseX, hLastCall.mouseY,
                      hLastCall.rect.left + hLastCall.rect.width \div 2,
                      hLastCall.rect.top + hLastCall.rect.height \div 2)
\* the offset a call asks gsap for, given what it decided
RequestedOffset(t) == IF t.active THEN <<t.x, t.y>> ELSE <<0, 0>>
HookFarCall == hLastCall # NoCall /\ ~hCfg.fullWindow /\ HookCenterDistance >= hCfg.distance

\* the hook of src/hooks/useMagnetic.ts alone: a call with the pointer at
\* config.distance or more from the center asks for (0, 0)
HookFarCallResets == HookFarCall => RequestedOffset(hLastCall.target) = <<0, 0>>
HookFarCallAtRange == HookFarCall /\ HookCenterDistance = hCfg.distance

\* C30: not in full-window mode, an event processed with the pointer at
\* config.distance or more from the center of the element asks for the
\* offset (0, 0), in either version of the hook, and so does every mouseleave.
C30_FarPointerResets ==
    /\ [](HookFarCall =>
            /\ RequestedOffset(hLastCall.target) = <<0, 0>>
            /\ RequestedOffset(hLastCall.refactored) = <<0, 0>>)
    /\ [][HookMouseLeave => hTweens' = Append(hTweens, [x |-> 0, y |-> 0])]_vars

-----------------------------------------------------------------------------
(* Properties of the force model and of the attractor transform, checked *)
(* under SpecPhysics *)

Applied == fOut # NoResult
ForceApplied == Applied /\ fIn.fn \in ForceFns
DampeningApplied == Applied /\ fIn.fn \in DampeningFns
TransformApplied == Applied /\ fIn.fn \in TransformFns

\* C16: the base force is 0 for every distance >= effectiveDistance, for
\* every exponent, and with the magnetic-distribution exponent applied.
C16_ForceZeroBeyondRange ==
    (ForceApplied /\ fIn.distance >= fIn.effectiveDistance) => fOut[1] = 0

\* the force with a distribution exponent, right at the effective distance
C16_Witness ==
    /\ ForceApplied
    /\ fIn.fn = "lavaRectForce"
    /\ fIn.magneticDistribution # 2
    /\ fIn.distance = fIn.effectiveDistance
    /\ fOut[1] = 0

\* C17: the base force lies in [0, 1], is exactly 1 at distance 0, and is
\* non-increasing in the distance.
C17_ForceBoundedMonotone ==
    ForceApplied =>
        /\ 0 <= fOut[1] /\ fOut[1] <= Scale
        /\ fIn.distance = 0 => fOut[1] = Scale
        /\ \A d \in ForceDistances :
              d >= fIn.distance => ApplyFn([fIn EXCEPT !.distance = d]) <= fOut[1]

\* a force strictly between 0 and 1, with a smaller one farther out and 1 at
\* distance 0
C17_Witness ==
    /\ ForceApplied
    /\ fIn.fn = "sphereForce"
    /\ 0 < fOut[1] /\ fOut[1] < Scale
    /\ \E d \in ForceDistances :
          d > fIn.distance /\ ApplyFn([fIn EXCEPT !.distance = d]) < fOut[1]
    /\ ApplyFn([fIn EXCEPT !.distance = 0]) = Scale

\* the distance to the center from which the dampening is off: the shape's
\* radius plus the surface buffer (part_007 measures from the surface itself)
DampeningReach ==
    IF fIn.fn = "sphereDampening"
    THEN DivT(SPHERE_DEFAULT_PHYSICS.baseRadius * SCREEN_WIDTH, SPHERE_DEFAULT_PHYSICS.svgSize)
         + SPHERE_DEFAULT_PHYSICS.surfaceBuffer
    ELSE Px(LAVA_RECT_SURFACE_BUFFER)

\* C18: calculateGlobalDampening returns a value in [minDampeningFactor, 1]
\* for every distance and every dampeningPower > 0, and exactly 1 once the
\* distance reaches shapeRadius + surfaceBuffer.
C18_DampeningWithinFloor ==
    DampeningApplied =>
        /\ fIn.minDampeningFactor <= fOut[1] /\ fOut[1] <= Scale
        /\ fIn.distance >= DampeningReach => fOut[1] = Scale

\* the attractor handed to the transform
ActualAttractor == [x |-> fIn.mouseX, y |-> fIn.mouseY]

\* C19: with offset 0 the perceived attractor is the actual attractor, for
\* every attractor and center, in the rectangle's and in the sphere's
\* implementation.
C19_ZeroOffsetIdentity ==
    (TransformApplied /\ fIn.offset = 0) => fOut[1] = ActualAttractor

Abs(n) == IF n < 0 THEN -n ELSE n
\* the attractor and the perceived attractor, as seen from the center
ActualOffCenter == [x |-> fIn.mouseX - fIn.centerX, y |-> fIn.mouseY - fIn.centerY]
PerceivedOffCenter == [x |-> fOut[1].x - fIn.centerX, y |-> fOut[1].y - fIn.centerY]
ActualDistance == calculateDistance(fIn.mouseX, fIn.mouseY, fIn.centerX, fIn.centerY)
PerceivedDistance == calculateDistance(fOut[1].x, fOut[1].y, fIn.centerX, fIn.centerY)
\* what the truncations of the arithmetic can take off or add to one
\* coordinate of the perceived attractor: the unit vector is off by at most
\* 1 / length + 1 / Scale, and it is multiplied by distance + offset
CoordinateTolerance ==
    LET perceivedDistance == ActualDistance + fIn.offset
    IN  perceivedDistance \div ActualDistance + perceivedDistance \div Scale + 3

\* C20: for offset > 0 the perceived attractor lies on the ray from the
\* center through the actual attractor, at distance(actual, center) + offset
\* from the center (to the resolution of the arithmetic), so never closer to
\* the center than the actual attractor; when the attractor is at the center
\* the result is (centerX + offset, centerY).
C20_PerceivedOnRay ==
    (TransformApplied /\ fIn.offset > 0) =>
        IF ActualAttractor = [x |-> fIn.centerX, y |-> fIn.centerY]
        THEN fOut[1] = [x |-> fIn.centerX + fIn.offset, y |-> fIn.centerY]
        ELSE /\ Abs(PerceivedOffCenter.x * ActualOffCenter.y
                    - PerceivedOffCenter.y * ActualOffCenter.x)
                    <= CoordinateTolerance * (Abs(ActualOffCenter.x) + Abs(ActualOffCenter.y))
             /\ PerceivedOffCenter.x * ActualOffCenter.x
                    + PerceivedOffCenter.y * ActualOffCenter.y > 0
             /\ Abs(PerceivedDistance - (ActualDistance + fIn.offset)) <= 2 * CoordinateTolerance
             /\ PerceivedDistance >= ActualDistance

\* an attractor off both axes of the center, pushed outward along its ray
C20_Witness ==
    /\ TransformApplied
    /\ fIn.offset > 0
    /\ ActualOffCenter.x # 0 /\ ActualOffCenter.y # 0
    /\ Abs(ActualOffCenter.x) # Abs(ActualOffCenter.y)
    /\ PerceivedDistance > ActualDistance
    /\ Abs(PerceivedDistance - (ActualDistance + fIn.offset)) <= 2 * CoordinateTolerance

CornerDampeningApplied == Applied /\ fIn.fn = "cornerDampening"
DistanceFromCorner(q) == MinI(q, Scale - q)
\* factor + (1 - factor) * (1 - (1 - t)^2) with t = distanceFromCorner / 0.3
BlendMultiplier(d, factor) ==
    LET t == (d * Scale) \div CORNER_BLEND_FACTOR
        oneMinusT == Scale - t
    IN  factor + ((Scale - factor) * (Scale - (oneMinusT * oneMinusT) \div Scale)) \div Scale
\* the result for the same strength, factor and corner flag at sidePosition q
DampenedAt(q) ==
    applyCornerDampening(fIn.strength, fIn.isCorner /\ q \in {0, Scale},
                         [sidePosition |-> q], fIn.factor)

\* C26: the strength is multiplied by the factor at a corner, by 1 at
\* 0.3 of the edge or more from the nearest corner, and in between by the
\* blend factor + (1 - factor)(1 - (1 - t)^2); for a factor in [0, 1] the
\* multiplier lies in [factor, 1] and does not decrease with the distance
\* from the corner.
C26_CornerDampeningBlend ==
    CornerDampeningApplied =>
        LET d == DistanceFromCorner(fIn.sidePosition)
            scaled(m) == (fIn.strength * m) \div Scale
        IN  /\ (fIn.isCorner \/ d = 0) => fOut[1] = scaled(fIn.factor)
            /\ (~fIn.isCorner /\ d >= CORNER_BLEND_FACTOR) => fOut[1] = fIn.strength
            /\ (~fIn.isCorner /\ d < CORNER_BLEND_FACTOR) =>
                  fOut[1] = scaled(BlendMultiplier(d, fIn.factor))
            /\ fOut[1] >= scaled(fIn.factor) /\ fOut[1] <= fIn.strength
            /\ \A q \in SidePositions :
                  DistanceFromCorner(q) <= d => DampenedAt(q) <= fOut[1]

\* a point inside the blend zone, off the corner, whose multiplier lies
\* strictly between the factor and 1
C26_Witness ==
    /\ CornerDampeningApplied
    /\ ~fIn.isCorner
    /\ DistanceFromCorner(fIn.sidePosition) > 0
    /\ DistanceFromCorner(fIn.sidePosition) < CORNER_BLEND_FACTOR
    /\ fIn.factor = DEFAULT_CORNER_DEFLECTION
    /\ fOut[1] > (fIn.strength * fIn.factor) \div Scale
    /\ fOut[1] < fIn.strength

SmoothPathBuilt == Applied /\ fIn.fn = "smoothPath"
\* the end point of a path command: its last two numbers
EndPoint(cmd) == [x |-> cmd[Len(cmd) - 1], y |-> cmd[Len(cmd)]]

\* C27: for N >= 1 points the smooth path is one move-to at point 0, then
\* exactly N cubic segments, the i-th ending at point (i + 1) mod N, so that
\* the last segment ends where the path started, and the path is closed.
C27_SmoothPathClosed ==
    SmoothPathBuilt =>
        LET path == fOut[1]
            n == Len(fIn.points)
        IN  /\ Len(path) = n + 2
            /\ path[1] = <<"M", fIn.points[1].x, fIn.points[1].y>>
            /\ \A i \in 0..(n - 1) :
                  /\ path[i + 2][1] = "C"
                  /\ Len(path[i + 2]) = 7
                  /\ EndPoint(path[i + 2]) = fIn.points[((i + 1) % n) + 1]
            /\ EndPoint(path[n + 1]) = EndPoint(path[1])
            /\ path[n + 2] = <<"Z">>

\* a single point: one segment from the point to itself
C27_SinglePoint == SmoothPathBuilt /\ Len(fIn.points) = 1 /\ Len(fOut[1]) = 3

\* three distinct points: the third segment ends at the first point
C27_Witness ==
    /\ SmoothPathBuilt
    /\ Len(fIn.points) = 3
    /\ Cardinality({fIn.points[i] : i \in 1..3}) = 3
    /\ Len(fOut[1]) = 5
    /\ EndPoint(fOut[1][4]) = fIn.points[1]

-----------------------------------------------------------------------------
(* The listeners of the useMagnetic hook, checked under SpecHook *)

\* the handlers registered on a target for an event type
HandlersOf(target, type) == {l \in hListeners : l.target = target /\ l.type = type}

\* C29: a mounted instance of the hook has exactly one mousemove and one
\* scroll handler on the document and one mouseleave handler on the element,
\* an unmounted one has none, whatever mounts, re-renders and unmounts came before.
C29_OneHandlerEach ==
    /\ hMounted =>
          /\ Cardinality(HandlersOf("document", "mousemove")) = 1
          /\ Cardinality(HandlersOf("document", "scroll")) = 1
          /\ Cardinality(HandlersOf("element", "mouseleave")) = 1
          /\ Cardinality(hListeners) = 3
    /\ ~hMounted => hListeners = {}

\* an instance that was mounted and used, unmounted and mounted again
C29_Witness ==
    /\ hMounted
    /\ hLastCall # NoCall
    /\ hLastMouse = <<0, 0>>
    /\ hPointer # NoPointer
    /\ Cardinality(hListeners) = 3

\* an instance that was used and then unmounted
C29_Unmounted == ~hMounted /\ hLastCall # NoCall /\ hListeners = {}

=============================================================================
